---- MODULE Spec2Model ----
(***************************************************************************)
(* Scheduling and check-execution engine of the uptime monitor:            *)
(*   - WorkerCache (src/workers/workerCache.js): the in-memory schedule    *)
(*   - the in-process runner (src/workers/worker.js): setInterval ticks,   *)
(*     sweeps, batches, checkMonitor, handleStatusChange                   *)
(*   - the queue-backed worker (src/workers/bullWorker.js):                *)
(*     processMonitorCheck, handleStatusChange, handleSslExpiryAlert       *)
(*   - the monitor and incident controllers that write the same records    *)
(*                                                                         *)
(* Time is counted in ticks of TICK_INTERVAL_MS: Date.now() is `now`       *)
(* ticks after start, and intervalSec*1000 ms is intervalSec*1000 \div     *)
(* TICK_INTERVAL_MS ticks.  A check's HTTP request may last several ticks  *)
(* (timeouts are 1..120 s, a tick is 1 s).  The ticks of the in-process    *)
(* runner that find no monitor due are taken in one step (IdleTicks).  In  *)
(* queue mode the delay of a job is not tied to the clock: a waiting job   *)
(* may start at any time.                                                  *)
(*                                                                         *)
(* Every handler is one atomic action, taken at the moment its awaited     *)
(* I/O has returned; a check is in flight between the action that starts   *)
(* it and the action that completes it.                                    *)
(***************************************************************************)
EXTENDS Integers, Sequences, FiniteSets, TLC

----------------------------------------------------------------------------
(* Bounds of the model *)

\* monitor ids are 1..NumMonitors
NumMonitors == 2
\* the clock takes MaxTime single ticks
MaxTime == 2
\* an idle period ends at MaxWakeTime at the latest
MaxWakeTime == 31
\* the timer fires while fewer than MaxSweeps sweeps are in progress
MaxSweeps == 2
\* incident ids are 1..MaxIncidents; ids are never reused
MaxIncidents == 2
\* the same two bounds of the runner-only specification
MaxRunnerTime == 11
MaxRunnerSweeps == 11
\* the incident controller is called for the incidents 1..MaxManaged only
MaxManaged == 1
\* consecutiveFailures is capped: a failing check at the cap is not taken
MaxFailures == 2
\* an incident timeline holds at most MaxTimeline entries
MaxTimeline == 2
\* the incident specification stops at MaxEntries timeline entries
MaxEntries == 3
\* at most MaxCalls calls of sendAlert are in flight at a time
MaxCalls == 2
\* the clock of the cache specification stops after MaxCacheTime ticks
MaxCacheTime == 2
\* the cache specification takes at most MaxStreak failures in a row
MaxStreak == 3
\* alert channel ids are 1..NumChannels
NumChannels == 2
\* the clock of the alert specification takes MaxAlertTicks single ticks
MaxAlertTicks == 1
\* a channel's alertsSent is capped: a delivery at the cap is not taken
MaxAlertsSent == 2
\* writes the store rejects during the sweep of the batch specification
MaxStoreFailures == 1
\* sslExpiry alerts counted per monitor while daysRemaining stays at a value
MaxSslAlerts == 2

(* Program constants *)

\* src/workers/worker.js:17
TICK_INTERVAL_MS == 1000
\* src/workers/worker.js:61
CONCURRENCY_LIMIT == 10
\* src/unnamed/part_005:94, the least intervalSec the Monitor schema accepts
MIN_INTERVAL_SEC == 30
\* src/models/AlertChannel.js:56, the default cooldownMinutes of a channel
DEFAULT_COOLDOWN_MINUTES == 5

Min(a, b) == IF a < b THEN a ELSE b

MonitorIds == 1..NumMonitors
IncidentIds == 1..MaxIncidents
ManagedIds == 1..Min(MaxManaged, MaxIncidents)
\* intervalSec values a monitor is updated with
Intervals == {MIN_INTERVAL_SEC}
\* alertAfterFailures values a monitor is created or updated with; the schema
\* (Monitor model, alertAfterFailures) has a default of 1 and no minimum
Thresholds == {0, 1, 2}
\* daysRemaining values of a check's SSL metadata; 0 - 1 stands for no sslInfo
NoSsl == 0 - 1
SslDays == {NoSsl, 29, 30}
\* null for dates and durations
NoTime == 0 - 1

----------------------------------------------------------------------------
(* State *)

VARIABLES
    useBullMQ,     \* USE_BULLMQ: FALSE = in-process runner, TRUE = queue worker
    now,           \* Date.now(), in ticks
    cache,         \* WorkerCache.cache: monitor id -> entry
    db,            \* Monitor collection: monitor id -> document
    incidents,     \* Incident collection: incident id -> document
    nextIncidentId,\* the id the next created incident gets
    sweeps,        \* runChecks executions in progress, oldest first
    jobs,          \* queue mode: monitor id -> state of its check job
    lastAct,       \* what the most recently completed handler did (observer)
    createdInRun,  \* per monitor: incidents created since its last successful
                   \* check (observer, capped at 2)
    qdb,           \* a second deployment, queue-backed, of the same monitors:
    qincidents,    \*   its Monitor collection, its Incident collection,
    qnextIncidentId, \* the id its next incident gets,
    qAct,          \*   and what its last processMonitorCheck did (observer)
    streak,        \* per monitor: updateAfterCheck calls with success = false
                   \* since the last one with success = true or since the
                   \* entry was made (observer of the cache specification)
    lastDone,      \* per monitor: Date.now() at its last updateAfterCheck
                   \* call, NoTime before the first (same observer)
    cacheCall,     \* the last call of a method of the cache: the method, the
                   \* record passed and the entry as it was (same observer)
    channels,      \* AlertChannel collection of the team: channel id -> document
    alertAct,      \* what the most recent sendAlert call did (observer)
    sslRun,        \* per monitor: the daysRemaining of its latest checks that
                   \* carried certificate data, and the sslExpiry alerts
                   \* requested while it stayed at that value (observer)
    loopAlive,     \* the process runs and the timer of startWorkerLoop fires
    errorAt,       \* when runChecks last threw, NoTime before (observer)
    checkCall,     \* the performCheck call being made: the monitor's type
                   \* and what its executor does
    checkResult,   \* what the last performCheck call came to
    urls,          \* per monitor: the url of its Monitor document
    attemptsMade,  \* queue mode: per monitor, the attempts of its check job
                   \* that have thrown
    timeouts,      \* per monitor: the timeout of its Monitor document, in ms
    exited,        \* process.exit has been called
    sending,       \* the sendToChannel calls awaiting their sender, per
                   \* call: channel, and alertsSent of the document loaded
    deliveries,    \* per channel: the deliveries its sender has made
    queue,         \* the jobs of the monitor-checks queue, as a set of
                   \* records: jobId, monitorId, state
    resumed        \* per monitor: "no", or since its last resumeMonitor no
                   \* check started after it has settled: "stale" while one
                   \* started before it is in flight, else "fresh"

\* the second deployment; only SpecEquiv below moves it
queueSide == <<qdb, qincidents, qnextIncidentId, qAct>>

\* the observers of the cache specification; only SpecCache moves them
cacheObs == <<streak, lastDone, cacheCall>>

\* the alert dispatcher's state; only SpecAlerts moves it
alertSide == <<channels, alertAct>>

\* the observers of the specifications of single parts of the program
loopObs == <<loopAlive, errorAt>>
dispatchObs == <<checkCall, checkResult>>
sideObs == <<sslRun, loopObs, dispatchObs, urls>>

\* the state that only the specifications of single steps move
endSide == <<exited, resumed>>

sendSide == <<sending, deliveries>>

stepSide == <<attemptsMade, timeouts, endSide, sendSide, queue>>

\* what the specifications of the whole program leave alone
apart == <<queueSide, cacheObs, alertSide, sideObs, stepSide>>

vars == <<useBullMQ, now, cache, db, incidents, nextIncidentId, sweeps, jobs,
          lastAct, createdInRun, apart>>

\* Monitor schema, timeout: default, min and max, in ms
DefaultTimeout == 30000
MinTimeout == 1000
MaxTimeout == 120000

\* no method of the cache has been called
NoCacheCall ==
    [kind |-> "none", monitorId |-> 0, active |-> FALSE, intervalSec |-> 0,
     before |-> 0]

\* a call of method `kind` for monitor m with a record of that activity and
\* interval, on the entry `before`
CacheCallOf(kind, m, active, intervalSec, before) ==
    [kind |-> kind, monitorId |-> m, active |-> active,
     intervalSec |-> intervalSec, before |-> before]

\* a cache slot with no entry (Map.get returns undefined)
NoEntry ==
    [present |-> FALSE, active |-> FALSE, nextRunAt |-> 0,
     lastStatus |-> "pending", lastResponseMs |-> 0,
     consecutiveFailures |-> 0, intervalSec |-> 0]

\* no Monitor document with this id (findById returns null)
NoDoc ==
    [exists |-> FALSE, active |-> FALSE, lastStatus |-> "pending",
     lastResponseMs |-> 0, consecutiveFailures |-> 0, currentIncidentId |-> 0,
     intervalSec |-> 0, alertAfterFailures |-> 0]

\* no Incident document with this id
NoIncident ==
    [exists |-> FALSE, monitorId |-> 0, status |-> "investigating",
     severity |-> "major", type |-> "auto", startedAt |-> NoTime,
     resolvedAt |-> NoTime, duration |-> NoTime, timeline |-> <<>>]

\* the observer's value after a handler that is not a check
NoAct ==
    [kind |-> "none", monitorId |-> 0, executor |-> "none", dbOk |-> TRUE,
     success |-> FALSE,
     ran |-> FALSE,
     previousStatus |-> "pending", newStatus |-> "pending",
     statusChanged |-> FALSE, consecutiveFailures |-> 0,
     alertAfterFailures |-> 0, hadIncidentId |-> 0, hadOpenIncident |-> FALSE,
     hadTimelineLen |-> 0, created |-> 0, resolved |-> 0, downAlert |-> FALSE, upAlert |-> FALSE,
     downtimeDuration |-> NoTime, sslDays |-> NoSsl, sslAlert |-> FALSE]

----------------------------------------------------------------------------
(* WorkerCache *)

\* new Monitor({...}) as createMonitor builds it: schema defaults for the status
NewDoc(intervalSec, alertAfterFailures) ==
    [exists |-> TRUE, active |-> TRUE, lastStatus |-> "pending",
     lastResponseMs |-> 0, consecutiveFailures |-> 0, currentIncidentId |-> 0,
     intervalSec |-> intervalSec, alertAfterFailures |-> alertAfterFailures]

\* an addMonitor that schedules the first check one interval after the add
addMonitorAfterInterval(entry, monitor, t) ==
    IF ~monitor.active THEN entry
    ELSE [present |-> TRUE, active |-> TRUE,
          nextRunAt |-> t + (monitor.intervalSec * 1000) \div TICK_INTERVAL_MS,
          lastStatus |-> monitor.lastStatus,
          lastResponseMs |-> monitor.lastResponseMs,
          consecutiveFailures |-> monitor.consecutiveFailures,
          intervalSec |-> monitor.intervalSec]

\* WorkerCache.addMonitor: the entry it stores for an active monitor, else the
\* slot as it was.  `monitor.lastStatus || 'pending'` and
\* `monitor.consecutiveFailures || 0` keep what the document carries.
addMonitor(entry, monitor, t) ==
    IF ~monitor.active THEN entry
    ELSE [present |-> TRUE, active |-> TRUE, nextRunAt |-> t,
          lastStatus |-> monitor.lastStatus,
          lastResponseMs |-> monitor.lastResponseMs,
          consecutiveFailures |-> monitor.consecutiveFailures,
          intervalSec |-> monitor.intervalSec]

\* WorkerCache.removeMonitor
removeMonitor(entry) == NoEntry

\* an updateMonitor that starts the entry afresh
updateMonitorFresh(entry, monitor, t) ==
    IF ~monitor.active THEN NoEntry
    ELSE [present |-> TRUE, active |-> TRUE, nextRunAt |-> t,
          lastStatus |-> "pending", lastResponseMs |-> 0,
          consecutiveFailures |-> 0, intervalSec |-> monitor.intervalSec]

\* WorkerCache.updateMonitor
updateMonitor(entry, monitor, t) ==
    IF ~monitor.active THEN removeMonitor(entry)
    ELSE [present |-> TRUE, active |-> TRUE,
          nextRunAt |-> IF entry.present THEN entry.nextRunAt ELSE t,
          lastStatus |-> IF entry.present THEN entry.lastStatus ELSE "pending",
          lastResponseMs |-> IF entry.present THEN entry.lastResponseMs ELSE 0,
          consecutiveFailures |->
              IF entry.present THEN entry.consecutiveFailures ELSE 0,
          intervalSec |-> monitor.intervalSec]

\* a pauseMonitor that leaves the entry as it is
pauseMonitorNoOp(entry) == entry

\* WorkerCache.pauseMonitor
pauseMonitor(entry) ==
    IF entry.present THEN [entry EXCEPT !.active = FALSE] ELSE entry

\* a resumeMonitor that keeps what the entry and the record hold
resumeMonitorKeeps(entry, monitor, t) ==
    [present |-> TRUE, active |-> TRUE,
     nextRunAt |-> IF entry.present THEN entry.nextRunAt ELSE t,
     lastStatus |-> IF entry.present THEN entry.lastStatus ELSE monitor.lastStatus,
     lastResponseMs |-> IF entry.present THEN entry.lastResponseMs ELSE 0,
     consecutiveFailures |->
         IF entry.present THEN entry.consecutiveFailures
         ELSE monitor.consecutiveFailures,
     intervalSec |-> monitor.intervalSec]

\* WorkerCache.resumeMonitor
resumeMonitor(entry, monitor, t) ==
    [present |-> TRUE, active |-> TRUE, nextRunAt |-> t,
     lastStatus |-> "pending", lastResponseMs |-> 0,
     consecutiveFailures |-> 0, intervalSec |-> monitor.intervalSec]

\* the test of WorkerCache.getMonitorsToRun on one entry
isDue(entry, t) == entry.present /\ entry.active /\ entry.nextRunAt <= t

RECURSIVE dueFrom(_, _, _)
dueFrom(c, t, m) ==
    IF m \notin DOMAIN c THEN <<>>
    ELSE (IF isDue(c[m], t)
          THEN <<[monitorId |-> m, intervalSec |-> c[m].intervalSec]>>
          ELSE <<>>) \o dueFrom(c, t, m + 1)

\* WorkerCache.getMonitorsToRun: the due entries, as the objects checkMonitor
\* reads (monitorId and the configuration held when listed)
getMonitorsToRun(c, t) == dueFrom(c, t, 1)

\* updateAfterCheck's returned statusChanged
StatusChangedInCache(previousStatus, newStatus) == previousStatus # newStatus

\* the value updateAfterCheck returns when the id has no entry
NullResult ==
    [isNull |-> TRUE, statusChanged |-> FALSE, previousStatus |-> "pending",
     newStatus |-> "pending", consecutiveFailures |-> 0]

\* an updateAfterCheck that counts failures and never resets the count
updateAfterCheckNoReset(entry, success, responseMs, nextRunAt) ==
    IF entry.present
    THEN LET newStatus == IF success THEN "up" ELSE "down"
             failures == entry.consecutiveFailures + (IF success THEN 0 ELSE 1)
         IN [entry |-> [entry EXCEPT !.lastStatus = newStatus,
                                     !.lastResponseMs = responseMs,
                                     !.nextRunAt = nextRunAt,
                                     !.consecutiveFailures = failures],
             result |-> [isNull |-> FALSE,
                         statusChanged |->
                             StatusChangedInCache(entry.lastStatus, newStatus),
                         previousStatus |-> entry.lastStatus,
                         newStatus |-> newStatus,
                         consecutiveFailures |-> failures]]
    ELSE [entry |-> entry, result |-> NullResult]

\* WorkerCache.updateAfterCheck: the entry afterwards and the returned result
updateAfterCheck(entry, success, responseMs, nextRunAt) ==
    IF entry.present
    THEN LET newStatus == IF success THEN "up" ELSE "down"
             failures == IF success THEN 0 ELSE entry.consecutiveFailures + 1
         IN [entry |-> [entry EXCEPT !.lastStatus = newStatus,
                                     !.lastResponseMs = responseMs,
                                     !.nextRunAt = nextRunAt,
                                     !.consecutiveFailures = failures],
             result |-> [isNull |-> FALSE,
                         statusChanged |->
                             StatusChangedInCache(entry.lastStatus, newStatus),
                         previousStatus |-> entry.lastStatus,
                         newStatus |-> newStatus,
                         consecutiveFailures |-> failures]]
    ELSE [entry |-> entry, result |-> NullResult]

----------------------------------------------------------------------------
(* Incident documents *)

\* incidentSchema.pre('save'): a resolved incident with no resolvedAt gets one
preSave(incident, t) ==
    IF incident.status = "resolved" /\ incident.resolvedAt = NoTime
    THEN [incident EXCEPT !.resolvedAt = t, !.duration = t - incident.startedAt]
    ELSE incident

\* Incident.create of handleStatusChange: schema defaults for startedAt
autoIncident(m, t) ==
    [exists |-> TRUE, monitorId |-> m, status |-> "investigating",
     severity |-> "major", type |-> "auto", startedAt |-> t,
     resolvedAt |-> NoTime, duration |-> NoTime,
     timeline |-> <<"investigating">>]

\* a resolution that sets the status and leaves the timeline as it was
autoResolveNoTimeline(incident, t, t2) ==
    preSave([incident EXCEPT !.status = "resolved"], t)

\* the automatic resolution of handleStatusChange, incident.save() included.
\* The clock is read twice: resolvedAt is the first `new Date()`, at t, and
\* duration is a second `new Date()`, at t2, minus startedAt.
autoResolve(incident, t, t2) ==
    preSave([incident EXCEPT !.status = "resolved",
                             !.resolvedAt = t,
                             !.duration = t2 - incident.startedAt,
                             !.timeline = Append(@, "resolved")], t2)

----------------------------------------------------------------------------
(* The status-transition and incident state machine *)

\* `monitor.alertAfterFailures || 1`
alertThreshold(monitor) ==
    IF monitor.alertAfterFailures = 0 THEN 1 ELSE monitor.alertAfterFailures

\* a down branch taken by every failure at or past the threshold
downTriggerAtOrPast(monitor, p) ==
    p.newStatus = "down" /\ p.consecutiveFailures >= alertThreshold(monitor)

\* a down branch taken only by the failure that reaches the threshold
downTriggerAtThreshold(monitor, p) ==
    p.newStatus = "down" /\ p.consecutiveFailures = alertThreshold(monitor)

\* worker.js handleStatusChange: the condition of the "Monitor went DOWN" branch
downTrigger(monitor, p) ==
    LET isThresholdReached == p.consecutiveFailures = alertThreshold(monitor)
        isAlreadyDownMissingIncident ==
            /\ p.newStatus = "down"
            /\ p.consecutiveFailures > alertThreshold(monitor)
            /\ monitor.currentIncidentId = 0
    IN (p.newStatus = "down" /\ isThresholdReached)
       \/ isAlreadyDownMissingIncident

\* bullWorker.js handleStatusChange: the condition of its "Monitor went DOWN" branch
bullDownTrigger(monitor, p) ==
    p.newStatus = "down" /\ p.consecutiveFailures = alertThreshold(monitor)

\* both handleStatusChange: the condition of the "Monitor RECOVERED" branch
recoveryTrigger(p) ==
    p.statusChanged /\ p.newStatus = "up" /\ p.previousStatus = "down"

\* does the recovery branch find an incident to resolve
resolvable(monitor, incs) ==
    /\ monitor.currentIncidentId # 0
    /\ incs[monitor.currentIncidentId].exists
    /\ incs[monitor.currentIncidentId].status # "resolved"

\* The effect both handleStatusChange have in common, given which branch
\* conditions hold.  `monitor` is the document the caller passed in, `doc` the
\* stored document that findByIdAndUpdate writes to.  bullDuration says how
\* downtimeDuration is computed: worker.js takes incident.duration of the
\* incident it has just resolved, bullWorker.js reads startedAt of
\* monitor.currentIncidentId again, resolved by this call or not.
stateMachine(down, up, bullDuration, monitor, doc, incs, nextId, m, t, t2) ==
    LET cur == monitor.currentIncidentId
        res == up /\ resolvable(monitor, incs)
        incs1 == IF down /\ nextId \in IncidentIds
                 THEN [incs EXCEPT ![nextId] = autoIncident(m, t)]
                 ELSE incs
        incs2 == IF res THEN [incs1 EXCEPT ![cur] = autoResolve(incs1[cur], t, t2)]
                 ELSE incs1
        doc1 == IF down THEN [doc EXCEPT !.currentIncidentId = nextId] ELSE doc
        doc2 == IF up /\ cur # 0 THEN [doc1 EXCEPT !.currentIncidentId = 0]
                ELSE doc1
        duration ==
            IF ~up THEN NoTime
            ELSE IF bullDuration
                 THEN (IF cur # 0 /\ incs2[cur].exists
                       THEN t - incs2[cur].startedAt ELSE NoTime)
                 ELSE (IF res THEN incs2[cur].duration ELSE NoTime)
    IN [doc |-> doc2, incidents |-> incs2,
        nextIncidentId |-> IF down THEN nextId + 1 ELSE nextId,
        created |-> IF down THEN nextId ELSE 0,
        resolved |-> IF res THEN cur ELSE 0,
        downAlert |-> down, upAlert |-> up, downtimeDuration |-> duration]

\* worker.js handleStatusChange
handleStatusChange(monitor, doc, incs, nextId, m, p, t, t2) ==
    stateMachine(downTrigger(monitor, p), recoveryTrigger(p), FALSE,
                 monitor, doc, incs, nextId, m, t, t2)

\* bullWorker.js handleStatusChange
bullHandleStatusChange(monitor, doc, incs, nextId, m, p, t, t2) ==
    stateMachine(bullDownTrigger(monitor, p), recoveryTrigger(p), TRUE,
                 monitor, doc, incs, nextId, m, t, t2)

\* bullWorker.js handleSslExpiryAlert, with the test of its call site
sslExpiryAlert(sslDays) ==
    sslDays # NoSsl /\ sslDays <= 30 /\ sslDays \in {30, 14, 7, 3, 1}

\* The store holds monitor 1, a heartbeat monitor that has never been checked;
\* createMonitor below cannot set a type, so every monitor it adds is http.
monitorType(m) == IF m = 1 THEN "heartbeat" ELSE "http"

\* Monitor schema, type: the enum
MonitorTypes == {"http", "ping", "port", "dns", "keyword", "heartbeat", "cronjob"}

\* checks/index.js performCheck: the executor its switch calls for a type
\* (`monitor.type || 'http'`; the default branch warns and calls checkHttp)
performCheckExecutor(type) == IF type \in MonitorTypes THEN type ELSE "http"

\* worker.js checkMonitor: the request is made with axios whatever the
\* monitor is; its cache entry carries no type
checkMonitorExecutor(type) == "http"

\* JavaScript's null in the error field of a check result
NoError == "null"

\* what an executor can do when called: return a result (the failures it
\* catches itself come back as success = false with an error text), or throw
\* (checkCronjob has no try/catch: toISOString of an invalid expected time
\* throws a RangeError); the message of an Error can be empty
ExecutorOutcomes ==
    {[kind |-> "returns", success |-> TRUE, error |-> NoError],
     [kind |-> "returns", success |-> FALSE, error |-> "Host unreachable"],
     [kind |-> "returns", success |-> FALSE, error |-> "Cron job never reported"],
     [kind |-> "throws", success |-> FALSE, error |-> "Invalid time value"],
     [kind |-> "throws", success |-> FALSE, error |-> "Unknown error"],
     [kind |-> "throws", success |-> FALSE, error |-> ""]}

\* the types a stored monitor or a job can carry: the schema's, none, and one
\* the dispatcher does not know
CallTypes == MonitorTypes \cup {"", "tcp"}

\* no call made yet; no call has returned yet
NoCall == [type |-> "", outcome |-> [kind |-> "none", success |-> FALSE, error |-> NoError]]
NoResult == [of |-> NoCall, threw |-> FALSE, executor |-> "none",
             success |-> FALSE, error |-> NoError]

\* a dispatcher that lets the executor's exception through
performCheckNoCatch(call) ==
    [of |-> call, threw |-> call.outcome.kind = "throws",
     executor |-> performCheckExecutor(call.type),
     success |-> call.outcome.success,
     error |-> call.outcome.error]

\* checks/index.js performCheck: the executor's result, or for an exception
\* `{success: false, error: error.message || 'Check failed'}`
performCheck(call) ==
    IF call.outcome.kind = "throws"
    THEN [of |-> call, threw |-> FALSE,
          executor |-> performCheckExecutor(call.type),
          success |-> FALSE,
          error |-> IF call.outcome.error # "" THEN call.outcome.error
                    ELSE "Check failed"]
    ELSE [of |-> call, threw |-> FALSE,
          executor |-> performCheckExecutor(call.type),
          success |-> call.outcome.success,
          error |-> call.outcome.error]

\* what a check did, for the observer
checkAct(kind, m, executor, success, dbOk, ran, p, monitor, incs, h, sslDays, sslAlert) ==
    [kind |-> kind, monitorId |-> m, executor |-> executor, dbOk |-> dbOk, success |-> success, ran |-> ran,
     previousStatus |-> p.previousStatus, newStatus |-> p.newStatus,
     statusChanged |-> p.statusChanged,
     consecutiveFailures |-> p.consecutiveFailures,
     alertAfterFailures |-> monitor.alertAfterFailures,
     hadIncidentId |-> monitor.currentIncidentId,
     hadOpenIncident |-> resolvable(monitor, incs),
     hadTimelineLen |-> IF resolvable(monitor, incs)
                        THEN Len(incs[monitor.currentIncidentId].timeline)
                        ELSE 0,
     created |-> h.created, resolved |-> h.resolved,
     downAlert |-> h.downAlert, upAlert |-> h.upAlert,
     downtimeDuration |-> h.downtimeDuration,
     sslDays |-> sslDays, sslAlert |-> sslAlert]

\* worker.js checkMonitor, `let responseMs = 0`: the specifications of the
\* whole program do not follow response times, every check records this one
Unmeasured == 0

\* the response times the cache specification records
ResponseTimes == {0, 1}

\* a next run one interval before the completion time
nextRunBefore(intervalSec, t) == t - (intervalSec * 1000) \div TICK_INTERVAL_MS

\* worker.js checkMonitor: `Date.now() + monitorData.intervalSec * 1000`, in
\* ticks
nextRunAfter(intervalSec, t) == t + (intervalSec * 1000) \div TICK_INTERVAL_MS

\* handleStatusChange was not called: nothing created, resolved or alerted
noEffect(doc, incs, nextId) ==
    [doc |-> doc, incidents |-> incs, nextIncidentId |-> nextId,
     created |-> 0, resolved |-> 0, downAlert |-> FALSE, upAlert |-> FALSE,
     downtimeDuration |-> NoTime]

\* a checkMonitor that updates the cache entry only after the store has taken
\* the result
checkMonitorStoreFirst(entry, doc, incs, nextId, m, intervalSec, success, dbOk, t, t2) ==
    LET nextRunAt == nextRunAfter(intervalSec, t)
        u == IF dbOk THEN updateAfterCheck(entry, success, Unmeasured, nextRunAt)
             ELSE [entry |-> entry, result |-> NullResult]
        p == u.result
        doc1 == IF dbOk /\ doc.exists
                THEN [doc EXCEPT
                         !.lastStatus = IF success THEN "up" ELSE "down",
                         !.lastResponseMs = Unmeasured,
                         !.consecutiveFailures =
                             IF p.isNull THEN 0 ELSE p.consecutiveFailures]
                ELSE doc
        ran == dbOk /\ ~p.isNull /\ doc.exists
        h == IF ran THEN handleStatusChange(doc1, doc1, incs, nextId, m, p, t, t2)
             ELSE noEffect(doc1, incs, nextId)
    IN [entry |-> u.entry, doc |-> h.doc, incidents |-> h.incidents,
        nextIncidentId |-> h.nextIncidentId,
        act |-> checkAct("check", m, checkMonitorExecutor(monitorType(m)),
                         success, dbOk, ran, p, doc1, incs, h,
                         NoSsl, FALSE)]

\* worker.js checkMonitor from the moment the HTTP request has returned:
\* updateAfterCheck, the writes to the store, handleStatusChange.  dbOk = FALSE
\* is a store that rejects the first write (the catch logs and goes on).  A
\* null result (no cache entry) or a deleted monitor makes the call of
\* handleStatusChange throw after the monitor document has been written.
checkMonitor(entry, doc, incs, nextId, m, intervalSec, success, dbOk, t, t2) ==
    LET nextRunAt == nextRunAfter(intervalSec, t)
        u == updateAfterCheck(entry, success, Unmeasured, nextRunAt)
        p == u.result
        doc1 == IF dbOk /\ doc.exists
                THEN [doc EXCEPT
                         !.lastStatus = IF success THEN "up" ELSE "down",
                         !.lastResponseMs = Unmeasured,
                         !.consecutiveFailures =
                             IF p.isNull THEN 0 ELSE p.consecutiveFailures]
                ELSE doc
        ran == dbOk /\ ~p.isNull /\ doc.exists
        h == IF ran THEN handleStatusChange(doc1, doc1, incs, nextId, m, p, t, t2)
             ELSE noEffect(doc1, incs, nextId)
    IN [entry |-> u.entry, doc |-> h.doc, incidents |-> h.incidents,
        nextIncidentId |-> h.nextIncidentId,
        act |-> checkAct("check", m, checkMonitorExecutor(monitorType(m)),
                         success, dbOk, ran, p, doc1, incs, h,
                         NoSsl, FALSE)]

\* bullWorker.js processMonitorCheck: statusChanged
bullStatusChanged(previousStatus, newStatus) ==
    previousStatus # newStatus /\ previousStatus # "pending"

\* bullWorker.js processMonitorCheck from the moment performCheck has returned
processMonitorCheck(doc, incs, nextId, m, success, sslDays, t, t2) ==
    LET newStatus == IF success THEN "up" ELSE "down"
        p == [isNull |-> FALSE,
              statusChanged |-> bullStatusChanged(doc.lastStatus, newStatus),
              previousStatus |-> doc.lastStatus,
              newStatus |-> newStatus,
              consecutiveFailures |->
                  IF success THEN 0 ELSE doc.consecutiveFailures + 1]
        doc1 == [doc EXCEPT !.lastStatus = newStatus,
                            !.lastResponseMs = Unmeasured,
                            !.consecutiveFailures = p.consecutiveFailures]
        h == IF doc.exists
             THEN bullHandleStatusChange(doc, doc1, incs, nextId, m, p, t, t2)
             ELSE noEffect(doc, incs, nextId)
    IN [doc |-> h.doc, incidents |-> h.incidents,
        nextIncidentId |-> h.nextIncidentId,
        act |-> checkAct("check", m, performCheckExecutor(monitorType(m)),
                         success, TRUE, doc.exists, p, doc, incs, h,
                         sslDays, doc.exists /\ sslExpiryAlert(sslDays))]

----------------------------------------------------------------------------
(* The alert dispatcher (services/alerts) *)

ChannelIds == 1..NumChannels
\* the event types the workers request alerts for
AlertTypes == {"down", "up", "sslExpiry"}
\* AlertChannel schema, notifyOn: a new channel notifies on all of these
DefaultNotifyOn == {"down", "up", "degraded", "sslExpiry"}

\* no document under a channel id
NoChannel ==
    [exists |-> FALSE, enabled |-> FALSE, notifyOn |-> {},
     cooldownMinutes |-> 0, lastAlertAt |-> NoTime, alertsSent |-> 0,
     lastError |-> FALSE]

\* AlertChannel.create as createAlertChannel calls it: schema defaults
NewChannel(notifyOn, cooldownMinutes) ==
    [exists |-> TRUE, enabled |-> TRUE, notifyOn |-> notifyOn,
     cooldownMinutes |-> cooldownMinutes, lastAlertAt |-> NoTime,
     alertsSent |-> 0, lastError |-> FALSE]

\* nothing sent yet
NoSend ==
    [kind |-> "none", alertType |-> "none", attempted |-> {},
     delivered |-> {}, before |-> [c \in ChannelIds |-> NoTime],
     sent |-> 0, failed |-> 0, unsent |-> {}]

\* a team without alert channels
\* no check has carried certificate data yet
NoSslRun == [days |-> NoSsl, alerts |-> 0]

\* the state of the single steps, before anything has happened
stepIdle ==
    /\ attemptsMade = [m \in MonitorIds |-> 0]
    /\ timeouts = [m \in MonitorIds |-> DefaultTimeout]
    /\ exited = FALSE
    /\ resumed = [m \in MonitorIds |-> "no"]
    /\ sending = {}
    /\ deliveries = [c \in 1..NumChannels |-> 0]
    /\ queue = {}

\* the observers of the single parts, before anything has happened
sideIdle ==
    /\ stepIdle
    /\ sslRun = [m \in MonitorIds |-> NoSslRun]
    /\ loopAlive = TRUE
    /\ errorAt = NoTime
    /\ checkCall = NoCall
    /\ checkResult = NoResult
    /\ urls = [m \in MonitorIds |-> <<>>]

alertsIdle ==
    /\ channels = [c \in ChannelIds |-> NoChannel]
    /\ alertAct = NoSend

\* What the sender of a channel does with one message: sendEmail returns
\* { success: true } when the transport took the message, returns
\* { success: false } when SMTP is not configured, and throws what the
\* transport throws; sendTelegramMessage returns or throws.
SenderResults == {"success", "failure", "thrown"}

\* sendToChannel: the channel document after the delivery was tried; ok says
\* whether the sender of the channel's type returned or threw
sendToChannel(channel, ok, t) ==
    IF ok
    THEN [channel EXCEPT !.alertsSent = @ + 1, !.lastAlertAt = t,
                         !.lastError = FALSE]
    ELSE [channel EXCEPT !.lastError = TRUE]

\* sendAlert: the channels its AlertChannel.find returns
subscribed(chs, alertType) ==
    {c \in ChannelIds : /\ chs[c].exists
                        /\ chs[c].enabled
                        /\ alertType \in chs[c].notifyOn}

\* sendAlert, were it to await the channels one after the other and give up
\* at the first that fails
sendAlertUntilFailure(chs, alertType, ok, t) ==
    LET found == subscribed(chs, alertType)
        tried == {c \in found : \A f \in found : ~ok[f] => c <= f}
        delivered == {c \in tried : ok[c]}
    IN [channels |-> [c \in ChannelIds |->
                         IF c \in tried THEN sendToChannel(chs[c], ok[c], t)
                         ELSE chs[c]],
        act |-> [kind |-> "send", alertType |-> alertType,
                 attempted |-> tried, delivered |-> delivered,
                 before |-> [c \in ChannelIds |-> chs[c].lastAlertAt],
                 sent |-> Cardinality(delivered),
                 failed |-> Cardinality(tried \ delivered), unsent |-> {}]]

\* sendAlert: sendToChannel on every channel found, then the counts
sendAlert(chs, alertType, ok, t) ==
    LET found == subscribed(chs, alertType)
        delivered == {c \in found : ok[c]}
    IN [channels |-> [c \in ChannelIds |->
                         IF c \in found THEN sendToChannel(chs[c], ok[c], t)
                         ELSE chs[c]],
        act |-> [kind |-> "send", alertType |-> alertType,
                 attempted |-> found, delivered |-> delivered,
                 before |-> [c \in ChannelIds |-> chs[c].lastAlertAt],
                 sent |-> Cardinality(delivered),
                 failed |-> Cardinality(found \ delivered), unsent |-> {}]]

\* cooldownMinutes in ticks
cooldownTicks(channel) ==
    (channel.cooldownMinutes * 60 * 1000) \div TICK_INTERVAL_MS

----------------------------------------------------------------------------
(* Initial state *)


\* The state after start-up with the monitor documents `store`:
\* initializeWorker (in-process) has put the active ones into the cache, or
\* initializeWorkers/loadMonitorsIntoQueue (queue mode) has enqueued them.
started(store) ==
    /\ now = 0
    /\ db = store
    /\ cache = [m \in MonitorIds |->
                   IF ~useBullMQ /\ store[m].exists
                   THEN addMonitor(NoEntry, store[m], 0) ELSE NoEntry]
    /\ jobs = [m \in MonitorIds |->
                  IF useBullMQ /\ store[m].exists /\ store[m].active
                  THEN "queued" ELSE "none"]
    /\ incidents = [i \in IncidentIds |-> NoIncident]
    /\ nextIncidentId = 1
    /\ sweeps = <<>>
    /\ lastAct = NoAct
    /\ createdInRun = [m \in MonitorIds |-> 0]
    /\ streak = [m \in MonitorIds |-> 0]
    /\ lastDone = [m \in MonitorIds |-> NoTime]
    /\ cacheCall = NoCacheCall

\* the second deployment, started on the monitor documents `store`
startedBeside(store) ==
    /\ qdb = store
    /\ qincidents = [i \in IncidentIds |-> NoIncident]
    /\ qnextIncidentId = 1
    /\ qAct = NoAct

\* Either mode, started on a store that holds monitor 1, never checked, with
\* any threshold it can have been created with.
Init ==
    /\ useBullMQ \in BOOLEAN
    /\ \E alertAfterFailures \in Thresholds :
          started([m \in MonitorIds |->
                      IF m = 1 THEN NewDoc(MIN_INTERVAL_SEC, alertAfterFailures) ELSE NoDoc])
    /\ startedBeside([m \in MonitorIds |-> NoDoc])
    /\ alertsIdle
    /\ sideIdle

----------------------------------------------------------------------------
(* The in-process runner *)

\* the batch of runChecks that starts at index i of the listed monitors
batchAt(mons, i) == i .. Min(i + CONCURRENCY_LIMIT - 1, Len(mons))

\* runChecks from its call to its first await: list the due monitors and start
\* the first batch; with nothing due the sweep is over at once
runChecks(sw, c, t) ==
    LET monitorsToRun == getMonitorsToRun(c, t)
    IN IF monitorsToRun = <<>> THEN sw
       ELSE Append(sw, [mons |-> monitorsToRun, i |-> 1,
                        pending |-> batchAt(monitorsToRun, 1)])

\* startWorkerLoop: the setInterval callback calls runChecks on every tick,
\* whatever the earlier calls are doing
startWorkerLoop(sw, c, t) == runChecks(sw, c, t)

\* runChecks after check k of sweep si has settled: when the batch's
\* Promise.all is complete, the next batch starts or the sweep ends
afterCheck(sw, si, k) ==
    LET s == sw[si]
        left == s.pending \ {k}
        i2 == s.i + CONCURRENCY_LIMIT
    IN IF left # {} THEN [sw EXCEPT ![si].pending = left]
       ELSE IF i2 <= Len(s.mons)
            THEN [sw EXCEPT ![si] = [mons |-> s.mons, i |-> i2,
                                     pending |-> batchAt(s.mons, i2)]]
            ELSE SubSeq(sw, 1, si - 1) \o SubSeq(sw, si + 1, Len(sw))

\* a checkMonitor whose promise rejects when the store rejects a write
rejectsOnStoreFailure(dbOk) == ~dbOk

\* worker.js checkMonitor: does its promise reject?  The writes to the store
\* and handleStatusChange run inside try/catch, and the catch only logs; the
\* request has its own.  Whatever the store does, the promise is fulfilled.
checkMonitorRejects(dbOk) == FALSE

\* runChecks when check k of sweep si has rejected: Promise.all rejects at
\* once, the await throws and runChecks leaves its loop.  The other checks of
\* the batch are already running and go on; no later batch is started.
afterRejection(sw, si, k) ==
    LET s == sw[si]
        left == s.pending \ {k}
        batches == SubSeq(s.mons, 1,
                          Min(Len(s.mons), s.i + CONCURRENCY_LIMIT - 1))
    IN IF left # {}
       THEN [sw EXCEPT ![si] = [mons |-> batches, i |-> s.i, pending |-> left]]
       ELSE SubSeq(sw, 1, si - 1) \o SubSeq(sw, si + 1, Len(sw))

\* the observer of incidents created in one run of failing checks
runCount(n, act) ==
    IF act.success THEN 0
    ELSE IF act.created # 0 THEN Min(2, n + 1) ELSE n

\* The timer fires: one tick of TICK_INTERVAL_MS has passed.
TickUpTo(bound, maxSweeps) ==
    /\ ~useBullMQ
    /\ now < bound
    /\ Len(sweeps) < maxSweeps
    /\ now' = now + 1
    /\ sweeps' = startWorkerLoop(sweeps, cache, now + 1)
    /\ lastAct' = NoAct
    /\ UNCHANGED <<apart, useBullMQ, cache, db, incidents, nextIncidentId, jobs,
                   createdInRun>>

Tick == TickUpTo(MaxTime, MaxSweeps)

\* the scheduled entries of the cache
scheduled(c) == {m \in MonitorIds : c[m].present /\ c[m].active}

\* the first tick at which getMonitorsToRun finds an entry due
wakeTime(c) ==
    CHOOSE t \in {c[m].nextRunAt : m \in scheduled(c)} :
        \A m \in scheduled(c) : t <= c[m].nextRunAt

\* No check is in flight and nothing is due for a while: the timer fires, and
\* runChecks returns at once, on every tick up to the one that finds a monitor
\* due.
IdleTicks ==
    /\ ~useBullMQ
    /\ sweeps = <<>>
    /\ scheduled(cache) # {}
    /\ wakeTime(cache) > now + 1
    /\ wakeTime(cache) <= MaxWakeTime
    /\ now' = wakeTime(cache)
    /\ sweeps' = startWorkerLoop(sweeps, cache, wakeTime(cache))
    /\ lastAct' = NoAct
    /\ UNCHANGED <<apart, useBullMQ, cache, db, incidents, nextIncidentId,
                   jobs, createdInRun>>

\* The request of check k of sweep si returns, with or without success, and
\* checkMonitor runs to its end; dbOk = FALSE is a store that rejects the
\* write.  t2 is the clock at the second read of a resolution.
checkCompletes(si, k, success, dbOk, t2) ==
    LET md == sweeps[si].mons[k]
        m == md.monitorId
        r == checkMonitor(cache[m], db[m], incidents, nextIncidentId, m,
                          md.intervalSec, success, dbOk, now, t2)
    IN /\ success \/ cache[m].consecutiveFailures < MaxFailures
       /\ r.nextIncidentId <= MaxIncidents + 1
       /\ cache' = [cache EXCEPT ![m] = r.entry]
       /\ db' = [db EXCEPT ![m] = r.doc]
       /\ incidents' = r.incidents
       /\ nextIncidentId' = r.nextIncidentId
       /\ sweeps' = IF checkMonitorRejects(dbOk)
                    THEN afterRejection(sweeps, si, k)
                    ELSE afterCheck(sweeps, si, k)
       /\ lastAct' = r.act
       /\ createdInRun' = [createdInRun EXCEPT ![m] = runCount(@, r.act)]

\* An in-flight check of the runner settles, within one tick.
CompleteCheck ==
    /\ ~useBullMQ
    /\ \E si \in 1..Len(sweeps) : \E k \in sweeps[si].pending :
       \E success \in BOOLEAN, dbOk \in BOOLEAN :
          checkCompletes(si, k, success, dbOk, now)
    /\ UNCHANGED <<apart, useBullMQ, now, jobs>>

----------------------------------------------------------------------------
(* The queue-backed worker *)

\* addMonitorCheckJob: the job id is check-<monitor id>, and the queue keeps one
\* job per id
addMonitorCheckJob(job) == IF job = "none" THEN "queued" ELSE job

\* removeMonitorJobs: getJob finds the job under its id whatever its state and
\* job.remove() deletes it, unless a worker holds it: a job being processed
\* goes on
removeMonitorJobs(job) == IF job = "active" THEN job ELSE "none"

\* defaultJobOptions.removeOnComplete of the monitor queue: the number of
\* completed jobs the queue keeps
removeOnComplete == 100

\* The job a worker has finished: it stays in the queue under its id as long
\* as it is among the removeOnComplete latest completed jobs, and it is the
\* latest one when its 'completed' event fires.
completedJob == IF removeOnComplete > 0 THEN "completed" ELSE "none"

\* defaultJobOptions.attempts and removeOnFail of the monitor queue
attempts == 3
removeOnFail == 500

\* The job whose processor has thrown, `made` earlier attempts having thrown
\* too: the queue delays it for another attempt while attempts are left, and
\* then keeps it as failed under its id.  The 'failed' handler only logs.
jobThrows(job, made) ==
    IF made + 1 < attempts THEN "queued"
    ELSE IF removeOnFail > 0 THEN "failed" ELSE "none"

\* scheduleNextCheck, called with the data of the job that has completed
scheduleNextCheck(monitor, job) ==
    IF monitor.exists /\ monitor.active THEN addMonitorCheckJob(job) ELSE job

\* Time passes in queue mode.
ClockTick ==
    /\ useBullMQ
    /\ now < MaxTime
    /\ now' = now + 1
    /\ lastAct' = NoAct
    /\ UNCHANGED <<apart, useBullMQ, cache, db, incidents, nextIncidentId, sweeps,
                   jobs, createdInRun>>

\* The worker takes a waiting job: performCheck starts.
JobStart ==
    /\ useBullMQ
    /\ \E m \in MonitorIds :
          /\ jobs[m] = "queued"
          /\ jobs' = [jobs EXCEPT ![m] = "active"]
    /\ lastAct' = NoAct
    /\ UNCHANGED <<apart, useBullMQ, now, cache, db, incidents, nextIncidentId,
                   sweeps, createdInRun>>

\* performCheck returns for monitor m and processMonitorCheck runs to its end;
\* the job completes and the next check is scheduled.  Only the http executor
\* yields sslInfo.
jobCompletes(m, success, sslDays) ==
    LET r == processMonitorCheck(db[m], incidents, nextIncidentId, m,
                                 success, sslDays, now, now)
    IN /\ jobs[m] = "active"
       /\ sslDays # NoSsl => monitorType(m) = "http"
       /\ success \/ db[m].consecutiveFailures < MaxFailures
       /\ r.nextIncidentId <= MaxIncidents + 1
       /\ db' = [db EXCEPT ![m] = r.doc]
       /\ incidents' = r.incidents
       /\ nextIncidentId' = r.nextIncidentId
       /\ jobs' = [jobs EXCEPT ![m] = scheduleNextCheck(r.doc, completedJob)]
       /\ lastAct' = r.act
       /\ createdInRun' = [createdInRun EXCEPT ![m] = runCount(@, r.act)]

\* A job of the queue-backed worker completes.
JobComplete ==
    /\ useBullMQ
    /\ \E m \in MonitorIds, success \in BOOLEAN, sslDays \in SslDays :
          jobCompletes(m, success, sslDays)
    /\ UNCHANGED <<apart, useBullMQ, now, cache, sweeps>>

----------------------------------------------------------------------------
(* The monitor controller *)

\* exports.createMonitor with a request that passes its test of name and url
\* and the schema's validators.  The new document gets the next unused id.
createsMonitor(m, intervalSec, alertAfterFailures) ==
    LET monitor == NewDoc(intervalSec, alertAfterFailures)
    IN /\ ~db[m].exists
       /\ \A n \in 1..(m - 1) : db[n].exists
       /\ db' = [db EXCEPT ![m] = monitor]
       /\ IF useBullMQ
          THEN /\ jobs' = [jobs EXCEPT ![m] = addMonitorCheckJob(@)]
               /\ cache' = cache
          ELSE /\ cache' = [cache EXCEPT ![m] = addMonitor(@, monitor, now)]
               /\ jobs' = jobs

CreateMonitor ==
    /\ \E m \in MonitorIds, intervalSec \in Intervals,
          alertAfterFailures \in Thresholds :
          createsMonitor(m, intervalSec, alertAfterFailures)
    /\ lastAct' = NoAct
    /\ UNCHANGED <<apart, useBullMQ, now, incidents, nextIncidentId, sweeps,
                   createdInRun>>

\* exports.updateMonitor.  A field that is absent from the request, or 0, is
\* left as it is (`if (intervalSec)`, `if (alertAfterFailures)`).
updatesMonitor(m, intervalSec, alertAfterFailures) ==
    LET monitor ==
            [db[m] EXCEPT
                !.intervalSec = IF intervalSec # 0 THEN intervalSec ELSE @,
                !.alertAfterFailures =
                    IF alertAfterFailures # 0 THEN alertAfterFailures ELSE @]
    IN /\ db[m].exists
       /\ db' = [db EXCEPT ![m] = monitor]
       /\ IF useBullMQ
          THEN /\ jobs' = [jobs EXCEPT ![m] =
                              IF monitor.active
                              THEN addMonitorCheckJob(removeMonitorJobs(@))
                              ELSE removeMonitorJobs(@)]
               /\ cache' = cache
          ELSE /\ cache' = [cache EXCEPT ![m] = updateMonitor(@, monitor, now)]
               /\ jobs' = jobs

UpdateMonitor ==
    /\ \E m \in MonitorIds, intervalSec \in Intervals \cup {0},
          alertAfterFailures \in Thresholds :
          updatesMonitor(m, intervalSec, alertAfterFailures)
    /\ lastAct' = NoAct
    /\ UNCHANGED <<apart, useBullMQ, now, incidents, nextIncidentId, sweeps,
                   createdInRun>>

\* exports.pauseMonitor
PauseMonitor ==
    /\ \E m \in MonitorIds :
          /\ db[m].exists
          /\ db' = [db EXCEPT ![m].active = FALSE]
          /\ IF useBullMQ
             THEN /\ jobs' = [jobs EXCEPT ![m] = removeMonitorJobs(@)]
                  /\ cache' = cache
             ELSE /\ cache' = [cache EXCEPT ![m] = pauseMonitor(@)]
                  /\ jobs' = jobs
    /\ lastAct' = NoAct
    /\ UNCHANGED <<apart, useBullMQ, now, incidents, nextIncidentId, sweeps,
                   createdInRun>>

\* exports.resumeMonitor
ResumeMonitor ==
    /\ \E m \in MonitorIds :
          LET monitor == [db[m] EXCEPT !.active = TRUE,
                                       !.lastStatus = "pending",
                                       !.consecutiveFailures = 0]
          IN /\ db[m].exists
             /\ db' = [db EXCEPT ![m] = monitor]
             /\ IF useBullMQ
                THEN /\ jobs' = [jobs EXCEPT ![m] = addMonitorCheckJob(@)]
                     /\ cache' = cache
                ELSE /\ cache' = [cache EXCEPT
                                     ![m] = resumeMonitor(@, monitor, now)]
                     /\ jobs' = jobs
    /\ lastAct' = NoAct
    /\ UNCHANGED <<apart, useBullMQ, now, incidents, nextIncidentId, sweeps,
                   createdInRun>>

\* recordHeartbeat: the inbound ping of a heartbeat monitor
RecordHeartbeat ==
    /\ \E m \in MonitorIds :
          /\ db[m].exists /\ db[m].active /\ monitorType(m) = "heartbeat"
          /\ db' = [db EXCEPT ![m].lastStatus = "up",
                              ![m].consecutiveFailures = 0]
    /\ lastAct' = NoAct
    /\ UNCHANGED <<apart, useBullMQ, now, cache, incidents, nextIncidentId, sweeps,
                   jobs, createdInRun>>

----------------------------------------------------------------------------
(* The incident controller *)

IncidentStatuses == {"investigating", "identified", "monitoring", "resolved"}
\* severities a manual incident is created with
ManualSeverities == {"critical"}

\* findByIdAndUpdate(monitorId, {currentIncidentId: id}) and the like: no
\* document, no write
setCurrentIncident(d, monitorId, id) ==
    IF monitorId \in MonitorIds /\ d[monitorId].exists
    THEN [d EXCEPT ![monitorId].currentIncidentId = id]
    ELSE d

\* exports.createIncident: a manual incident, linked to a monitor or to none (0)
CreateIncident ==
    /\ nextIncidentId <= Min(MaxManaged, MaxIncidents)
    /\ \E monitorId \in {m \in MonitorIds : db[m].exists} \cup {0},
          severity \in ManualSeverities :
          /\ incidents' =
                 [incidents EXCEPT ![nextIncidentId] =
                     [exists |-> TRUE, monitorId |-> monitorId,
                      status |-> "investigating", severity |-> severity,
                      type |-> "manual", startedAt |-> now,
                      resolvedAt |-> NoTime, duration |-> NoTime,
                      timeline |-> <<"investigating">>]]
          /\ db' = IF monitorId \in MonitorIds /\ db[monitorId].exists
                   THEN [db EXCEPT
                            ![monitorId].currentIncidentId = nextIncidentId,
                            ![monitorId].lastStatus = "down"]
                   ELSE db
    /\ nextIncidentId' = nextIncidentId + 1
    /\ lastAct' = NoAct
    /\ UNCHANGED <<apart, useBullMQ, now, cache, sweeps, jobs, createdInRun>>

\* exports.updateIncident with a status that differs from the incident's
updatesIncident(id, status) ==
    LET incident == incidents[id]
        updated ==
            [incident EXCEPT
                !.status = status,
                !.timeline = Append(@, status),
                !.resolvedAt = IF status = "resolved" THEN now ELSE @,
                !.duration = IF status = "resolved"
                             THEN now - incident.startedAt ELSE @]
    IN /\ incident.exists
       /\ status # incident.status
       /\ incidents' = [incidents EXCEPT ![id] = preSave(updated, now)]
       /\ db' = IF status = "resolved"
                THEN setCurrentIncident(db, incident.monitorId, 0)
                ELSE db

UpdateIncident ==
    /\ \E id \in ManagedIds, status \in IncidentStatuses :
          /\ Len(incidents[id].timeline) < MaxTimeline
          /\ updatesIncident(id, status)
    /\ lastAct' = NoAct
    /\ UNCHANGED <<apart, useBullMQ, now, cache, nextIncidentId, sweeps, jobs,
                   createdInRun>>

\* exports.addTimelineEntry, with a status or with none ("")
addsTimelineEntry(id, status) ==
    LET incident == incidents[id]
        st == IF status # "" THEN status ELSE incident.status
        updated == [incident EXCEPT !.status = st,
                                    !.timeline = Append(@, st)]
    IN /\ incident.exists
       /\ incidents' = [incidents EXCEPT ![id] = preSave(updated, now)]

AddTimelineEntry ==
    /\ \E id \in ManagedIds, status \in IncidentStatuses \cup {""} :
          /\ Len(incidents[id].timeline) < MaxTimeline
          /\ addsTimelineEntry(id, status)
    /\ lastAct' = NoAct
    /\ UNCHANGED <<apart, useBullMQ, now, cache, db, nextIncidentId, sweeps, jobs,
                   createdInRun>>

\* exports.deleteIncident
DeleteIncident ==
    /\ \E id \in ManagedIds :
          /\ incidents[id].exists
          /\ incidents' = [incidents EXCEPT ![id] = NoIncident]
          /\ db' = setCurrentIncident(db, incidents[id].monitorId, 0)
    /\ lastAct' = NoAct
    /\ UNCHANGED <<apart, useBullMQ, now, cache, nextIncidentId, sweeps, jobs,
                   createdInRun>>

----------------------------------------------------------------------------
(* Specifications *)

Next ==
    \/ Tick
    \/ IdleTicks
    \/ CompleteCheck
    \/ ClockTick
    \/ JobStart
    \/ JobComplete
    \/ UpdateMonitor
    \/ PauseMonitor
    \/ ResumeMonitor
    \/ RecordHeartbeat
    \/ CreateIncident
    \/ UpdateIncident
    \/ AddTimelineEntry
    \/ DeleteIncident

Spec == Init /\ [][Next]_vars

\* The in-process runner alone, with nobody calling the controllers, on a
\* store that holds monitor 1 with a threshold its failures stay below.
InitRunner ==
    /\ useBullMQ = FALSE
    /\ started([m \in MonitorIds |->
                   IF m = 1 THEN NewDoc(MIN_INTERVAL_SEC, MaxFailures + 1) ELSE NoDoc])
    /\ startedBeside([m \in MonitorIds |-> NoDoc])
    /\ alertsIdle
    /\ sideIdle

TickRunner == TickUpTo(MaxRunnerTime, MaxRunnerSweeps)

NextRunner ==
    \/ TickRunner
    \/ CompleteCheck

SpecRunner == InitRunner /\ [][NextRunner]_vars

\* Either mode with every check of the runner returning before the next tick,
\* so that no two sweeps are in progress together.
TickSerial == TickUpTo(MaxTime, 1)

NextSerial ==
    \/ TickSerial
    \/ IdleTicks
    \/ CompleteCheck
    \/ ClockTick
    \/ JobStart
    \/ JobComplete
    \/ UpdateMonitor
    \/ PauseMonitor
    \/ ResumeMonitor
    \/ RecordHeartbeat
    \/ CreateIncident
    \/ UpdateIncident
    \/ AddTimelineEntry
    \/ DeleteIncident

SpecSerial == Init /\ [][NextSerial]_vars

----------------------------------------------------------------------------
(* Checks in flight *)

\* the checks started and not yet completed: <<sweep, position in its list>>
inFlight ==
    {c \in (1..Len(sweeps)) \X (1..NumMonitors) : c[2] \in sweeps[c[1]].pending}

\* the monitor a check in flight is a check of
monitorOf(c) == sweeps[c[1]].mons[c[2]].monitorId

\* C1: the in-process runner never has two sweeps in progress at the same
\* time: a tick that fires during a sweep starts no new sweep.
C1_OneSweepAtATime == Len(sweeps) <= 1

\* C2: at most one check of each monitor is in flight at any time.
C2_OneCheckPerMonitor ==
    \A m \in MonitorIds : Cardinality({c \in inFlight : monitorOf(c) = m}) <= 1

\* C3: the number of checks in flight is at most the batch size.
C3_InFlightAtMostBatchSize == Cardinality(inFlight) <= CONCURRENCY_LIMIT


\* The two workers side by side: an in-process deployment and a queue-backed
\* deployment start on the same store (monitor 1 heartbeat, monitor 2 http,
\* never checked) and are fed the same check results, one check at a time.
InitEquiv ==
    /\ useBullMQ = FALSE
    /\ \E alertAfterFailures \in Thresholds :
          /\ started([m \in MonitorIds |-> NewDoc(MIN_INTERVAL_SEC, alertAfterFailures)])
          /\ startedBeside([m \in MonitorIds |-> NewDoc(MIN_INTERVAL_SEC, alertAfterFailures)])
          /\ alertsIdle
          /\ sideIdle

\* One check of monitor m settles with the same outcome in both deployments:
\* checkMonitor in the one, processMonitorCheck in the other.  Only an http
\* check can carry certificate data, and only performCheck of bullWorker.js
\* hands it on; checkMonitor of worker.js calls axios and has none.
EquivCheck ==
    \E m \in MonitorIds, success \in BOOLEAN, sslDays \in SslDays :
        LET r == checkMonitor(cache[m], db[m], incidents, nextIncidentId, m,
                              cache[m].intervalSec, success, TRUE, now, now)
            q == processMonitorCheck(qdb[m], qincidents, qnextIncidentId, m,
                                     success, sslDays, now, now)
        IN /\ cache[m].present /\ db[m].exists /\ qdb[m].exists
           /\ monitorType(m) = "http" \/ sslDays = NoSsl
           /\ success \/ cache[m].consecutiveFailures < MaxFailures
           /\ r.nextIncidentId <= MaxIncidents + 1
           /\ q.nextIncidentId <= MaxIncidents + 1
           /\ cache' = [cache EXCEPT ![m] = r.entry]
           /\ db' = [db EXCEPT ![m] = r.doc]
           /\ incidents' = r.incidents
           /\ nextIncidentId' = r.nextIncidentId
           /\ lastAct' = r.act
           /\ qdb' = [qdb EXCEPT ![m] = q.doc]
           /\ qincidents' = q.incidents
           /\ qnextIncidentId' = q.nextIncidentId
           /\ qAct' = q.act
           /\ UNCHANGED <<stepSide, useBullMQ, now, sweeps, jobs, createdInRun, cacheObs,
                          alertSide, sideObs>>

\* time passes between the checks
EquivTick ==
    /\ now < MaxTime
    /\ now' = now + 1
    /\ UNCHANGED <<useBullMQ, cache, db, incidents, nextIncidentId, sweeps,
                   jobs, lastAct, createdInRun, apart>>

NextEquiv ==
    \/ EquivCheck
    \/ EquivTick

SpecEquiv == InitEquiv /\ [][NextEquiv]_vars

----------------------------------------------------------------------------
(* The down-alert trigger *)

\* the last handler was a check of the in-process runner on which
\* handleStatusChange was called
runnerCheckRan == lastAct.kind = "check" /\ ~useBullMQ /\ lastAct.ran

\* the trigger as the specification words it, on the alertAfterFailures given
downExpected(alertAfterFailures) ==
    /\ lastAct.newStatus = "down"
    /\ \/ lastAct.consecutiveFailures = alertAfterFailures
       \/ /\ lastAct.consecutiveFailures > alertAfterFailures
          /\ lastAct.hadIncidentId = 0

\* the check created an auto incident (investigating, major), linked it to the
\* monitor and requested a down alert
downActed ==
    /\ lastAct.created # 0
    /\ incidents[lastAct.created] = autoIncident(lastAct.monitorId, now)
    /\ incidents[lastAct.created].status = "investigating"
    /\ incidents[lastAct.created].severity = "major"
    /\ incidents[lastAct.created].type = "auto"
    /\ db[lastAct.monitorId].currentIncidentId = lastAct.created
    /\ lastAct.downAlert

\* the check created no incident and requested no down alert
downIdle == lastAct.created = 0 /\ ~lastAct.downAlert

----------------------------------------------------------------------------
(* Incidents of a monitor *)

\* the auto incidents of monitor m that are not resolved
openAuto(m) ==
    {i \in IncidentIds : /\ incidents[i].exists
                         /\ incidents[i].monitorId = m
                         /\ incidents[i].type = "auto"
                         /\ incidents[i].status # "resolved"}

\* C5: every monitor has at most one auto incident that is not resolved.
C5_AtMostOneOpenAutoIncident ==
    \A m \in MonitorIds : Cardinality(openAuto(m)) <= 1

\* C6: in one run of failing checks of a monitor, with no successful check in
\* between, at most one incident is created.
C6_OneIncidentPerFailingRun ==
    \A m \in MonitorIds : createdInRun[m] <= 1

----------------------------------------------------------------------------
(* Recovery *)

\* the last handler was a check that went from down to up while the monitor's
\* currentIncidentId named an incident that was not resolved
recoveredWithOpenIncident ==
    /\ lastAct.kind = "check"
    /\ lastAct.ran
    /\ lastAct.previousStatus = "down"
    /\ lastAct.newStatus = "up"
    /\ lastAct.hadOpenIncident

\* C7: after such a check the incident is resolved, with resolvedAt set and a
\* resolved entry appended to its timeline, the monitor's currentIncidentId is
\* null, and an up alert that carries the downtime has been requested.
C7_RecoveryResolves ==
    recoveredWithOpenIncident =>
        LET incident == incidents[lastAct.hadIncidentId]
        IN /\ incident.exists
           /\ incident.status = "resolved"
           /\ incident.resolvedAt = now
           /\ Len(incident.timeline) = lastAct.hadTimelineLen + 1
           /\ incident.timeline[Len(incident.timeline)] = "resolved"
           /\ lastAct.resolved = lastAct.hadIncidentId
           /\ db[lastAct.monitorId].currentIncidentId = 0
           /\ lastAct.upAlert
           /\ lastAct.downtimeDuration = now - incident.startedAt
           /\ lastAct.downtimeDuration >= 0

\* C7 witnesses: such a check, in each mode
C7_Witness == recoveredWithOpenIncident /\ ~useBullMQ /\ lastAct.resolved # 0

C7_WitnessQueue == recoveredWithOpenIncident /\ useBullMQ /\ lastAct.resolved # 0

\* C8: once a successful check of a monitor has completed, no auto incident
\* of that monitor is open.  Stated for the checks on which the state machine
\* ran, which is the weaker statement.
C8_SuccessLeavesNoOpenIncident ==
    (lastAct.kind = "check" /\ lastAct.ran /\ lastAct.success) =>
        openAuto(lastAct.monitorId) = {}

----------------------------------------------------------------------------
(* statusChanged *)

\* C9: the statusChanged computed for a check is true exactly when
\* previousStatus differs from newStatus and previousStatus is not pending.
C9_StatusChanged ==
    (lastAct.kind = "check" /\ lastAct.ran) =>
        (lastAct.statusChanged <=>
            (/\ lastAct.previousStatus # lastAct.newStatus
             /\ lastAct.previousStatus # "pending"))

----------------------------------------------------------------------------
(* The two workers on the same check results *)

\* the last check took the same state-machine actions in both deployments,
\* the SSL-expiry alert left aside
sameIncidentActions ==
    /\ (lastAct.created # 0) = (qAct.created # 0)
    /\ (lastAct.resolved # 0) = (qAct.resolved # 0)
    /\ lastAct.downAlert = qAct.downAlert
    /\ lastAct.upAlert = qAct.upAlert

\* C10: fed the same check results, the in-process runner and the queue-backed
\* worker take the same actions at every check: incident created, incident
\* resolved, down alert, up alert, SSL-expiry alert.
C10_SameActions ==
    lastAct.kind = "check" =>
        /\ qAct.kind = "check"
        /\ qAct.monitorId = lastAct.monitorId
        /\ sameIncidentActions
        /\ lastAct.sslAlert = qAct.sslAlert

----------------------------------------------------------------------------
(* The check dispatcher in both modes *)

\* C13: in both execution modes a check is performed by the executor of the
\* monitor's type, and the HTTP executor runs only for type http and for
\* unrecognized types.
C13_ExecutorOfType ==
    lastAct.kind = "check" =>
        /\ monitorType(lastAct.monitorId) \in MonitorTypes =>
               lastAct.executor = monitorType(lastAct.monitorId)
        /\ lastAct.executor = "http" =>
               monitorType(lastAct.monitorId) \notin MonitorTypes \ {"http"}

----------------------------------------------------------------------------
(* The in-process runner when the store rejects a write *)

\* C17: when persisting a check result fails in the in-process runner, the
\* monitor's cache entry still has its status and failure count updated and
\* its nextRunAt set to the completion time plus intervalSec*1000, so that the
\* monitor is due again one interval later.
C17_CacheUpdatedWithoutStore ==
    (lastAct.kind = "check" /\ ~lastAct.dbOk) =>
        LET entry == cache[lastAct.monitorId]
        IN entry.present =>
              /\ entry.lastStatus = IF lastAct.success THEN "up" ELSE "down"
              /\ entry.consecutiveFailures = lastAct.consecutiveFailures
              /\ lastAct.success => entry.consecutiveFailures = 0
              /\ ~lastAct.success => entry.consecutiveFailures >= 1
              /\ entry.nextRunAt = now + (entry.intervalSec * 1000) \div TICK_INTERVAL_MS
              /\ entry.active =>
                    isDue(entry, now + (entry.intervalSec * 1000) \div TICK_INTERVAL_MS)

C17_Witness ==
    /\ lastAct.kind = "check"
    /\ ~lastAct.dbOk
    /\ ~lastAct.success
    /\ cache[lastAct.monitorId].present
    /\ cache[lastAct.monitorId].consecutiveFailures = MaxFailures
    /\ cache[lastAct.monitorId].nextRunAt > now
    /\ db[lastAct.monitorId].lastStatus # cache[lastAct.monitorId].lastStatus

----------------------------------------------------------------------------
(* WorkerCache alone: its methods called in any order *)

\* Both monitors have just been created and added: entries in fresh state.
InitCache ==
    /\ useBullMQ = FALSE
    /\ started([m \in MonitorIds |-> NewDoc(MIN_INTERVAL_SEC, 1)])
    /\ startedBeside([m \in MonitorIds |-> NoDoc])
    /\ alertsIdle
    /\ sideIdle

\* the record of monitor m as the monitor controller passes it to the cache
passed(m, active) == [db[m] EXCEPT !.active = active]

\* what a method of the cache leaves alone
cacheFrame ==
    UNCHANGED <<stepSide, useBullMQ, now, db, incidents, nextIncidentId, sweeps, jobs,
                lastAct, createdInRun, queueSide, alertSide, sideObs, cacheCall>>

\* addMonitor(monitor), as createMonitor calls it: the id has no entry.
\* (initializeWorker's calls on stored records are not taken here.)
CacheAdd ==
    /\ \E m \in MonitorIds, active \in BOOLEAN :
          /\ ~cache[m].present
          /\ cache' = [cache EXCEPT ![m] = addMonitor(@, passed(m, active), now)]
          /\ streak' = [streak EXCEPT ![m] = 0]
    /\ UNCHANGED lastDone
    /\ cacheFrame

\* updateMonitor(monitor)
CacheUpdate ==
    /\ \E m \in MonitorIds, active \in BOOLEAN :
          /\ cache' = [cache EXCEPT
                          ![m] = updateMonitor(@, passed(m, active), now)]
          /\ streak' = [streak EXCEPT
                           ![m] = IF cache[m].present /\ active THEN @ ELSE 0]
    /\ UNCHANGED lastDone
    /\ cacheFrame

\* removeMonitor(id)
CacheRemove ==
    /\ \E m \in MonitorIds :
          /\ cache[m].present
          /\ cache' = [cache EXCEPT ![m] = removeMonitor(@)]
          /\ streak' = [streak EXCEPT ![m] = 0]
    /\ UNCHANGED lastDone
    /\ cacheFrame

\* pauseMonitor(id)
CachePause ==
    /\ \E m \in MonitorIds : cache' = [cache EXCEPT ![m] = pauseMonitor(@)]
    /\ UNCHANGED <<streak, lastDone>>
    /\ cacheFrame

\* resumeMonitor(monitor)
CacheResume ==
    /\ \E m \in MonitorIds :
          /\ cache' = [cache EXCEPT
                          ![m] = resumeMonitor(@, passed(m, TRUE), now)]
          /\ streak' = [streak EXCEPT ![m] = 0]
    /\ UNCHANGED lastDone
    /\ cacheFrame

\* A check of monitor m completes now: checkMonitor computes nextRunAt and
\* calls updateAfterCheck, whether or not the id still has an entry.
CacheCheck ==
    /\ \E m \in MonitorIds, success \in BOOLEAN, responseMs \in ResponseTimes :
          LET u == updateAfterCheck(cache[m], success, responseMs,
                                    nextRunAfter(cache[m].intervalSec, now))
          IN /\ success \/ streak[m] < MaxStreak
             /\ cache' = [cache EXCEPT ![m] = u.entry]
             /\ streak' = [streak EXCEPT
                              ![m] = IF u.result.isNull THEN @
                                     ELSE IF success THEN 0 ELSE @ + 1]
             /\ lastDone' = [lastDone EXCEPT ![m] = now]
    /\ cacheFrame

\* time passes
CacheTick ==
    /\ now < MaxCacheTime
    /\ now' = now + 1
    /\ UNCHANGED <<useBullMQ, cache, db, incidents, nextIncidentId, sweeps,
                   jobs, lastAct, createdInRun, apart>>

NextCache ==
    \/ CacheAdd
    \/ CacheUpdate
    \/ CacheRemove
    \/ CachePause
    \/ CacheResume
    \/ CacheCheck
    \/ CacheTick

SpecCache == InitCache /\ [][NextCache]_vars

----------------------------------------------------------------------------
(* The failure count and the schedule of a cache entry *)

\* C11: the consecutiveFailures of every cache entry is 0 after a successful
\* check, is N after N failed checks in a row that follow a success or the
\* making of the entry, and is never negative.
C11_FailuresCounted ==
    \A m \in MonitorIds :
        cache[m].present =>
            /\ cache[m].consecutiveFailures = streak[m]
            /\ cache[m].consecutiveFailures >= 0

\* C11 witnesses: MaxStreak failures in a row on an entry, and a success that
\* follows failures
C11_Witness ==
    \E m \in MonitorIds :
        /\ cache[m].present
        /\ streak[m] = MaxStreak
        /\ cache[m].consecutiveFailures = MaxStreak

\* C12: the nextRunAt of every cache entry is at or after the time at which
\* the last check of its monitor completed.
C12_NextRunAfterLastCheck ==
    \A m \in MonitorIds :
        (cache[m].present /\ lastDone[m] # NoTime) =>
            cache[m].nextRunAt >= lastDone[m]

\* C12 witnesses: an entry resumed, so due at once, after a check of its
\* monitor has completed at a later tick than the start
C12_Witness ==
    \E m \in MonitorIds :
        /\ cache[m].present
        /\ lastDone[m] > 0
        /\ cache[m].nextRunAt = lastDone[m]

----------------------------------------------------------------------------
(* The alert dispatcher alone: alerts requested over time *)

\* The team has created its channels, each with the default cooldown and
\* subscribed to every event type or to down only.
InitAlerts ==
    /\ useBullMQ = FALSE
    /\ started([m \in MonitorIds |-> NoDoc])
    /\ startedBeside([m \in MonitorIds |-> NoDoc])
    /\ channels \in [ChannelIds ->
                        {NewChannel(n, DEFAULT_COOLDOWN_MINUTES) :
                            n \in {DefaultNotifyOn, {"down"}}}]
    /\ alertAct = NoSend
    /\ sideIdle

\* what the dispatcher leaves alone
alertFrame ==
    UNCHANGED <<stepSide, useBullMQ, cache, db, incidents, nextIncidentId, sweeps, jobs,
                lastAct, createdInRun, queueSide, cacheObs,
                sideObs>>

\* A worker requests an alert: sendAlert runs to its end, each delivery
\* succeeding or failing.
SendAlert ==
    /\ \E alertType \in AlertTypes, result \in [ChannelIds -> SenderResults] :
          LET ok == [c \in ChannelIds |-> result[c] # "thrown"]
              r == sendAlert(channels, alertType, ok, now)
          IN /\ \A c \in ChannelIds : r.channels[c].alertsSent <= MaxAlertsSent
             /\ channels' = r.channels
             /\ alertAct' =
                   [r.act EXCEPT
                       !.unsent = {c \in r.act.attempted :
                                      result[c] = "failure"}]
    /\ UNCHANGED now
    /\ alertFrame

\* updateAlertChannel with `enabled` in the request
UpdateAlertChannel ==
    /\ \E c \in ChannelIds, enabled \in BOOLEAN :
          /\ channels[c].exists
          /\ channels' = [channels EXCEPT ![c].enabled = enabled]
    /\ alertAct' = NoSend
    /\ UNCHANGED now
    /\ alertFrame

\* one tick passes
AlertTick ==
    /\ now % cooldownTicks(NewChannel({}, DEFAULT_COOLDOWN_MINUTES))
          < MaxAlertTicks
    /\ now' = now + 1
    /\ alertAct' = NoSend
    /\ UNCHANGED channels
    /\ alertFrame

\* the default cooldown passes, once
AlertWait ==
    /\ now < cooldownTicks(NewChannel({}, DEFAULT_COOLDOWN_MINUTES))
    /\ now' = now + cooldownTicks(NewChannel({}, DEFAULT_COOLDOWN_MINUTES))
    /\ alertAct' = NoSend
    /\ UNCHANGED channels
    /\ alertFrame

NextAlerts ==
    \/ SendAlert
    \/ UpdateAlertChannel
    \/ AlertTick
    \/ AlertWait

SpecAlerts == InitAlerts /\ [][NextAlerts]_vars

----------------------------------------------------------------------------
(* Alert cooldown *)

\* C14: sendAlert attempts a delivery on a channel only if the channel has
\* never alerted or now - lastAlertAt is at least its cooldownMinutes, so two
\* requests within the cooldown give one attempt.
C14_CooldownRespected ==
    alertAct.kind = "send" =>
        \A c \in alertAct.attempted :
            \/ alertAct.before[c] = NoTime
            \/ now - alertAct.before[c] >= cooldownTicks(channels[c])

----------------------------------------------------------------------------
(* The queue-backed worker alone: certificate data over successive checks *)

\* the days at which handleSslExpiryAlert requests an alert
alertDays == {30, 14, 7, 3, 1}

\* Queue mode, started on a store that holds the heartbeat monitor and the
\* http monitor (sslCheck set, an https url), never checked.
InitSsl ==
    /\ useBullMQ = TRUE
    /\ started([m \in MonitorIds |-> NewDoc(MIN_INTERVAL_SEC, 1)])
    /\ startedBeside([m \in MonitorIds |-> NoDoc])
    /\ alertsIdle
    /\ sideIdle

\* the observer after a check that carried sslDays and did or did not request
\* an sslExpiry alert; a check without certificate data leaves it
sslRunAfter(run, sslDays, alerted) ==
    IF sslDays = NoSsl THEN run
    ELSE [days |-> sslDays,
          alerts |-> (IF sslDays = run.days THEN run.alerts ELSE 0)
                         + (IF alerted THEN 1 ELSE 0)]

\* A job completes, observed.
SslJobComplete ==
    /\ useBullMQ
    /\ \E m \in MonitorIds, success \in BOOLEAN, sslDays \in SslDays :
          /\ jobCompletes(m, success, sslDays)
          /\ sslRun[m].alerts < MaxSslAlerts
          /\ sslRun' = [sslRun EXCEPT
                           ![m] = sslRunAfter(@, sslDays, lastAct'.sslAlert)]
    /\ UNCHANGED <<queueSide, cacheObs, alertSide, loopObs, dispatchObs, urls,
                   stepSide, useBullMQ, now, cache, sweeps>>

\* exports.updateMonitor with a request that leaves interval and threshold as
\* they are: the job of the monitor is removed and added anew.
SslUpdate ==
    /\ useBullMQ
    /\ \E m \in MonitorIds : updatesMonitor(m, 0, 0)
    /\ lastAct' = NoAct
    /\ UNCHANGED <<apart, useBullMQ, now, incidents, nextIncidentId, sweeps,
                   createdInRun>>

NextSsl == ClockTick \/ JobStart \/ SslJobComplete \/ SslUpdate

SpecSsl == InitSsl /\ [][NextSsl]_vars

\* C15: while daysRemaining of a monitor stays equal to one threshold value
\* over a sequence of checks, exactly one sslExpiry alert is requested for it,
\* not one per check.
C15_OneAlertPerThreshold ==
    \A m \in MonitorIds :
        sslRun[m].days \in alertDays => sslRun[m].alerts = 1

----------------------------------------------------------------------------
(* The in-process runner alone: one sweep of more than one batch *)

\* one monitor more than a batch holds
SweptIds == 1..(CONCURRENCY_LIMIT + 1)

\* the monitors whose check result the store did not take: the cache entry
\* has the new status, the document has not
storeFailed == {m \in DOMAIN cache : cache[m].lastStatus # db[m].lastStatus}

\* In-process mode, started on a store that holds the monitors of SweptIds,
\* all active and never checked, with a threshold their failures stay below.
InitBatch ==
    /\ useBullMQ = FALSE
    /\ now = 0
    /\ db = [m \in SweptIds |-> NewDoc(MIN_INTERVAL_SEC, MaxFailures + 1)]
    /\ cache = [m \in SweptIds |->
                   addMonitor(NoEntry, NewDoc(MIN_INTERVAL_SEC, MaxFailures + 1), 0)]
    /\ jobs = [m \in SweptIds |-> "none"]
    /\ incidents = [i \in IncidentIds |-> NoIncident]
    /\ nextIncidentId = 1
    /\ sweeps = <<>>
    /\ lastAct = NoAct
    /\ createdInRun = [m \in SweptIds |-> 0]
    /\ streak = [m \in MonitorIds |-> 0]
    /\ lastDone = [m \in MonitorIds |-> NoTime]
    /\ cacheCall = NoCacheCall
    /\ startedBeside([m \in MonitorIds |-> NoDoc])
    /\ alertsIdle
    /\ sideIdle

\* A check of the sweep settles; every target answers as expected, and the
\* store rejects the writes of at most MaxStoreFailures checks.
BatchCheck ==
    /\ \E si \in 1..Len(sweeps) : \E k \in sweeps[si].pending :
       \E dbOk \in BOOLEAN :
          /\ dbOk \/ Cardinality(storeFailed) < MaxStoreFailures
          /\ checkCompletes(si, k, TRUE, dbOk, now)
    /\ UNCHANGED <<apart, useBullMQ, now, jobs>>

NextBatch == TickSerial \/ BatchCheck

SpecBatch == InitBatch /\ [][NextBatch]_vars

\* C16: a storage failure while persisting one monitor's check result does
\* not keep the other due monitors of the sweep from being checked: when the
\* sweep is over, every one of them has been checked and its cache entry
\* updated.
C16_SweepChecksTheOthers ==
    (sweeps = <<>> /\ storeFailed # {}) =>
        \A m \in DOMAIN cache :
            /\ cache[m].lastStatus = "up"
            /\ cache[m].nextRunAt > now

C16_Witness ==
    /\ sweeps = <<>>
    /\ \E m \in 1..CONCURRENCY_LIMIT : m \in storeFailed
    /\ \A m \in DOMAIN cache : cache[m].lastStatus = "up"
    /\ Cardinality(DOMAIN cache) > CONCURRENCY_LIMIT

----------------------------------------------------------------------------
(* The tick loop when a sweep throws *)

\* a timer callback without try/catch: the rejection of its promise is
\* unhandled, and the process ends
sweepErrorEscapes == FALSE

\* startWorkerLoop: is an exception of `await runChecks()` caught?  The
\* callback wraps the call in try/catch and the catch only logs.
sweepErrorCaught == TRUE

\* In-process mode on a store that holds monitor 1; every sweep is over
\* before the next tick.
InitLoop ==
    /\ useBullMQ = FALSE
    /\ \E alertAfterFailures \in Thresholds :
          started([m \in MonitorIds |->
                      IF m = 1 THEN NewDoc(MIN_INTERVAL_SEC, alertAfterFailures)
                      ELSE NoDoc])
    /\ startedBeside([m \in MonitorIds |-> NoDoc])
    /\ alertsIdle
    /\ sideIdle

\* the timer fires, if there still is one
LoopTick == loopAlive /\ TickSerial

LoopIdleTicks == loopAlive /\ IdleTicks

\* a check settles, if the process still runs
LoopCheck == loopAlive /\ CompleteCheck

\* The timer fires and runChecks throws before it has started a check: the
\* callback of startWorkerLoop is left through its catch, or not at all.
TickThrows ==
    /\ ~useBullMQ
    /\ loopAlive
    /\ now < MaxTime
    /\ sweeps = <<>>
    /\ now' = now + 1
    /\ errorAt' = now + 1
    /\ loopAlive' = sweepErrorCaught
    /\ lastAct' = NoAct
    /\ UNCHANGED <<queueSide, cacheObs, alertSide, sslRun, dispatchObs, urls,
                   stepSide, useBullMQ, cache, db, incidents, nextIncidentId, sweeps,
                   jobs, createdInRun>>

\* Check k of sweep si throws before it has touched the cache or the store,
\* outside the try/catch blocks of checkMonitor: Promise.all rejects and
\* runChecks throws.
CheckThrows ==
    /\ ~useBullMQ
    /\ loopAlive
    /\ \E si \in 1..Len(sweeps) : \E k \in sweeps[si].pending :
          sweeps' = afterRejection(sweeps, si, k)
    /\ errorAt' = now
    /\ loopAlive' = sweepErrorCaught
    /\ lastAct' = NoAct
    /\ UNCHANGED <<queueSide, cacheObs, alertSide, sslRun, dispatchObs, urls,
                   stepSide, useBullMQ, now, cache, db, incidents, nextIncidentId, jobs,
                   createdInRun>>

NextLoop ==
    \/ LoopTick
    \/ LoopIdleTicks
    \/ LoopCheck
    \/ TickThrows
    \/ CheckThrows

SpecLoop == InitLoop /\ [][NextLoop]_vars

----------------------------------------------------------------------------
(* The check dispatcher alone *)

\* the calls performCheck can get
Calls == [type : CallTypes, outcome : ExecutorOutcomes]

\* A first call is about to be made.
InitDispatch ==
    /\ useBullMQ = TRUE
    /\ started([m \in MonitorIds |-> NoDoc])
    /\ startedBeside([m \in MonitorIds |-> NoDoc])
    /\ alertsIdle
    /\ sslRun = [m \in MonitorIds |-> NoSslRun]
    /\ loopAlive = TRUE
    /\ errorAt = NoTime
    /\ urls = [m \in MonitorIds |-> <<>>]
    /\ stepIdle
    /\ checkCall \in Calls
    /\ checkResult = NoResult

\* performCheck is called and comes to its end; another call is about to be
\* made.
PerformCheck ==
    /\ checkResult' = performCheck(checkCall)
    /\ checkCall' \in Calls
    /\ UNCHANGED <<stepSide, useBullMQ, now, cache, db, incidents, nextIncidentId, sweeps,
                   jobs, lastAct, createdInRun, queueSide, cacheObs, alertSide,
                   sslRun, loopObs, urls>>

NextDispatch == PerformCheck

SpecDispatch == InitDispatch /\ [][NextDispatch]_vars

\* C19: performCheck returns a result for every monitor type and never
\* throws: an exception raised inside an executor yields a result with
\* success = false and a non-null error message.
C19_PerformCheckNeverThrows ==
    checkResult # NoResult =>
        /\ ~checkResult.threw
        /\ checkResult.of.outcome.kind = "throws" =>
              /\ checkResult.success = FALSE
              /\ checkResult.error # NoError
              /\ checkResult.error # ""

C19_Witness ==
    /\ checkResult.of.outcome.kind = "throws"
    /\ checkResult.of.outcome.error = ""
    /\ checkResult.of.type = "cronjob"
    /\ checkResult.error = "Check failed"
    /\ ~checkResult.success

----------------------------------------------------------------------------
(* The monitor controller and the validation of configurations *)

\* a text as the sequence of its characters
HttpUrl == <<"h", "t", "t", "p", ":", "/", "/", "a", ".", "i", "o">>
BareHost == <<"a", ".", "i", "o">>
HttpPrefix == <<"h", "t", "t", "p">>

\* String.prototype.startsWith
startsWith(text, prefix) ==
    /\ Len(text) >= Len(prefix)
    /\ SubSeq(text, 1, Len(prefix)) = prefix

\* the urls of the requests; the empty text stands for no url in the request
Urls == {<<>>, HttpUrl, BareHost}

\* checks/index.js validateMonitorConfig: valid of its result.  An unset
\* text is empty, an unset port is 0.
validateMonitorConfig(monitor) ==
    LET type == IF monitor.type = "" THEN "http" ELSE monitor.type
    IN CASE type \in {"http", "keyword"} ->
              /\ monitor.url # <<>>
              /\ startsWith(monitor.url, HttpPrefix)
              /\ type = "keyword" => monitor.keyword # <<>>
         [] type = "ping" -> monitor.url # <<>>
         [] type = "port" ->
              /\ monitor.url # <<>>
              /\ monitor.port # 0
              /\ ~(monitor.port < 1 \/ monitor.port > 65535)
         [] type = "dns" -> monitor.url # <<>>
         [] type = "heartbeat" -> TRUE
         [] type = "cronjob" -> monitor.cronExpression # <<>>
         [] OTHER -> TRUE

\* the configuration of the document createMonitor has made for monitor m:
\* the request cannot carry a type, a keyword, a port or a cron expression,
\* and the schema's default type is http
configOf(m) ==
    [type |-> "http", url |-> urls[m], keyword |-> <<>>, port |-> 0,
     cronExpression |-> <<>>]

\* Either mode, started on an empty store.
InitConfig ==
    /\ useBullMQ \in BOOLEAN
    /\ started([m \in MonitorIds |-> NoDoc])
    /\ startedBeside([m \in MonitorIds |-> NoDoc])
    /\ alertsIdle
    /\ sideIdle

\* what the controller leaves alone
configFrame ==
    UNCHANGED <<stepSide, useBullMQ, now, incidents, nextIncidentId, sweeps, createdInRun,
                queueSide, cacheObs, alertSide, sslRun, loopObs, dispatchObs>>

\* exports.createMonitor with the url of the request: `!url` answers 400
ConfigCreate ==
    /\ \E m \in MonitorIds, url \in Urls, alertAfterFailures \in Thresholds :
          /\ url # <<>>
          /\ createsMonitor(m, MIN_INTERVAL_SEC, alertAfterFailures)
          /\ urls' = [urls EXCEPT ![m] = url]
    /\ lastAct' = NoAct
    /\ configFrame

\* exports.updateMonitor with the url of the request: `if (url) monitor.url
\* = url`
ConfigUpdate ==
    /\ \E m \in MonitorIds, url \in Urls, alertAfterFailures \in Thresholds :
          /\ updatesMonitor(m, 0, alertAfterFailures)
          /\ urls' = [urls EXCEPT ![m] = IF url # <<>> THEN url ELSE @]
    /\ lastAct' = NoAct
    /\ configFrame

NextConfig ==
    \/ ConfigCreate
    \/ ConfigUpdate
    \/ PauseMonitor
    \/ ResumeMonitor
    \/ JobStart

SpecConfig == InitConfig /\ [][NextConfig]_vars

\* C20: no monitor whose configuration fails validateMonitorConfig for its
\* type is present in the scheduling cache or enqueued for checking.
C20_InvalidNeverScheduled ==
    \A m \in MonitorIds :
        (cache[m].present \/ jobs[m] \in {"queued", "active"}) =>
            validateMonitorConfig(configOf(m))

----------------------------------------------------------------------------
(* The in-process runner over restarts of the process *)

\* In-process mode on a store that holds monitor 1, never checked, with a
\* threshold its failures stay below.
InitBoot ==
    /\ useBullMQ = FALSE
    /\ started([m \in MonitorIds |->
                   IF m = 1 THEN NewDoc(MIN_INTERVAL_SEC, MaxFailures + 1)
                   ELSE NoDoc])
    /\ startedBeside([m \in MonitorIds |-> NoDoc])
    /\ alertsIdle
    /\ sideIdle

\* the observer's value after initializeWorker, and after createMonitor has
\* added monitor m
BootAct == [NoAct EXCEPT !.kind = "boot"]
AddAct(m) == [NoAct EXCEPT !.kind = "add", !.monitorId = m]

\* The process is stopped and started again.  The checks in flight end with
\* the old process; initializeWorker finds the active monitors in the store
\* and calls addMonitor on each, into an empty cache.
Restart ==
    /\ ~useBullMQ
    /\ cache' = [m \in MonitorIds |->
                    IF db[m].exists /\ db[m].active
                    THEN addMonitor(NoEntry, db[m], now) ELSE NoEntry]
    /\ sweeps' = <<>>
    /\ lastAct' = BootAct
    /\ UNCHANGED <<apart, useBullMQ, now, db, incidents, nextIncidentId, jobs,
                   createdInRun>>

\* exports.createMonitor, observed
BootCreate ==
    /\ \E m \in MonitorIds :
          /\ createsMonitor(m, MIN_INTERVAL_SEC, MaxFailures + 1)
          /\ lastAct' = AddAct(m)
    /\ UNCHANGED <<apart, useBullMQ, now, incidents, nextIncidentId, sweeps,
                   createdInRun>>

NextBoot ==
    \/ TickSerial
    \/ IdleTicks
    \/ CompleteCheck
    \/ PauseMonitor
    \/ ResumeMonitor
    \/ BootCreate
    \/ Restart

SpecBoot == InitBoot /\ [][NextBoot]_vars

\* the monitors addMonitor has just been called on with an active record
justAdded ==
    IF lastAct.kind = "boot"
    THEN {m \in MonitorIds : db[m].exists /\ db[m].active}
    ELSE IF lastAct.kind = "add" THEN {lastAct.monitorId} ELSE {}

\* C21: addMonitor of an active monitor inserts an entry with nextRunAt = now,
\* status pending and consecutiveFailures 0, whatever status and failure count
\* the monitor record carries; addMonitor of an inactive monitor leaves the
\* cache unchanged.
C21_AddInsertsFreshEntry ==
    /\ \A m \in justAdded :
          /\ cache[m].present
          /\ cache[m].active
          /\ cache[m].nextRunAt = now
          /\ cache[m].lastStatus = "pending"
          /\ cache[m].consecutiveFailures = 0
    /\ lastAct.kind = "boot" =>
          \A m \in MonitorIds : ~db[m].active => ~cache[m].present

\* the ids of the monitors getMonitorsToRun returns
dueIds(c, t) ==
    LET toRun == getMonitorsToRun(c, t)
    IN {toRun[i].monitorId : i \in 1..Len(toRun)}

\* C22: immediately after addMonitor of an active monitor, at startup or at
\* creation, getMonitorsToRun returns that monitor.
C22_AddedIsDue == justAdded \subseteq dueIds(cache, now)

C22_Witness ==
    /\ lastAct.kind = "boot"
    /\ now > 0
    /\ \E m \in justAdded : db[m].lastStatus = "down"
    /\ Cardinality(justAdded) = NumMonitors
    /\ justAdded \subseteq dueIds(cache, now)

----------------------------------------------------------------------------
(* WorkerCache alone: each call of a method against the entry it found *)

\* the intervals of the records passed to the cache: the schema's minimum and
\* its default
CacheIntervals == {MIN_INTERVAL_SEC, 60}

\* the monitor whose entry the calls are about
Watched == 1

\* the record of the watched monitor as the controller or initializeWorker
\* passes it: active or not, with an interval, and with the status, response
\* time and failure count the last check wrote
record(active, intervalSec) ==
    [db[Watched] EXCEPT !.active = active, !.intervalSec = intervalSec]

\* method `kind` is called and leaves the entry `after`
callsCache(kind, active, intervalSec, after) ==
    /\ cache' = [cache EXCEPT ![Watched] = after]
    /\ cacheCall' = CacheCallOf(kind, Watched, active, intervalSec, cache[Watched])
    /\ UNCHANGED <<streak, lastDone>>
    /\ UNCHANGED <<stepSide, useBullMQ, now, incidents, nextIncidentId, sweeps, jobs,
                   lastAct, createdInRun, queueSide, alertSide, sideObs>>

CallAdd ==
    \E active \in BOOLEAN, intervalSec \in CacheIntervals :
        /\ ~cache[Watched].present
        /\ callsCache("add", active, intervalSec,
                      addMonitor(cache[Watched], record(active, intervalSec), now))
        /\ UNCHANGED db

CallUpdate ==
    \E active \in BOOLEAN, intervalSec \in CacheIntervals :
        /\ callsCache("update", active, intervalSec,
                      updateMonitor(cache[Watched], record(active, intervalSec), now))
        /\ UNCHANGED db

CallRemove ==
    /\ cache[Watched].present
    /\ callsCache("remove", FALSE, 0, removeMonitor(cache[Watched]))
    /\ UNCHANGED db

CallPause ==
    /\ callsCache("pause", FALSE, 0, pauseMonitor(cache[Watched]))
    /\ UNCHANGED db

CallResume ==
    \E intervalSec \in CacheIntervals :
        /\ callsCache("resume", TRUE, intervalSec,
                      resumeMonitor(cache[Watched], record(TRUE, intervalSec), now))
        /\ UNCHANGED db

\* a check completes: updateAfterCheck, then the document is written
CallCheck ==
    \E success \in BOOLEAN, responseMs \in ResponseTimes :
        LET u == updateAfterCheck(cache[Watched], success, responseMs,
                                  nextRunAfter(cache[Watched].intervalSec, now))
        IN /\ cache[Watched].present
           /\ success \/ cache[Watched].consecutiveFailures < MaxFailures
           /\ callsCache("check", FALSE, 0, u.entry)
           /\ db' = [db EXCEPT
                        ![Watched].lastStatus = u.result.newStatus,
                        ![Watched].lastResponseMs = responseMs,
                        ![Watched].consecutiveFailures = u.result.consecutiveFailures]

\* time passes
CallTick ==
    /\ now < MaxCacheTime
    /\ now' = now + 1
    /\ cacheCall' = NoCacheCall
    /\ UNCHANGED <<stepSide, useBullMQ, cache, db, incidents, nextIncidentId, sweeps,
                   jobs, lastAct, createdInRun, streak, lastDone, queueSide,
                   alertSide, sideObs>>

NextCalls ==
    \/ CallAdd
    \/ CallUpdate
    \/ CallRemove
    \/ CallPause
    \/ CallResume
    \/ CallCheck
    \/ CallTick

SpecCalls == InitBoot /\ [][NextCalls]_vars

\* C23: updateMonitor on an active monitor that has a cache entry replaces the
\* configuration fields and leaves the entry's nextRunAt, lastStatus,
\* lastResponseMs and consecutiveFailures unchanged; updateMonitor on an
\* inactive monitor leaves the cache as removeMonitor of that id would.
C23_UpdateKeepsSchedule ==
    cacheCall.kind = "update" =>
        LET entry == cache[cacheCall.monitorId]
            before == cacheCall.before
        IN IF cacheCall.active
           THEN /\ entry.present
                /\ entry.active
                /\ entry.intervalSec = cacheCall.intervalSec
                /\ before.present =>
                      /\ entry.nextRunAt = before.nextRunAt
                      /\ entry.lastStatus = before.lastStatus
                      /\ entry.lastResponseMs = before.lastResponseMs
                      /\ entry.consecutiveFailures = before.consecutiveFailures
           ELSE entry = removeMonitor(before)

C23_Witness ==
    /\ cacheCall.kind = "update"
    /\ cacheCall.active
    /\ cacheCall.before.present
    /\ cacheCall.before.intervalSec # cacheCall.intervalSec
    /\ cacheCall.before.consecutiveFailures = MaxFailures
    /\ cacheCall.before.lastResponseMs = 1
    /\ cacheCall.before.nextRunAt > now
    /\ cache[cacheCall.monitorId].nextRunAt > now

\* C25: resumeMonitor replaces the entry with nextRunAt = now, status pending,
\* consecutiveFailures 0 and active = true, whatever the previous entry or
\* the monitor record held.
C25_ResumeStartsAfresh ==
    cacheCall.kind = "resume" =>
        LET entry == cache[cacheCall.monitorId]
        IN /\ entry.present
           /\ entry.active
           /\ entry.nextRunAt = now
           /\ entry.lastStatus = "pending"
           /\ entry.consecutiveFailures = 0

C25_Witness ==
    /\ cacheCall.kind = "resume"
    /\ cacheCall.before.present
    /\ ~cacheCall.before.active
    /\ cacheCall.before.lastStatus = "down"
    /\ cacheCall.before.consecutiveFailures = MaxFailures
    /\ cacheCall.before.nextRunAt > now
    /\ db[cacheCall.monitorId].lastStatus = "down"
    /\ cache[cacheCall.monitorId].nextRunAt = now

----------------------------------------------------------------------------
(* Paused monitors in the whole program *)

\* the monitors paused and not resumed: pauseMonitor of the controller has
\* saved active = false
pausedMonitors == {m \in MonitorIds : db[m].exists /\ ~db[m].active}

\* C24: pauseMonitor(id) keeps the entry in the cache with active = false and
\* every other field unchanged, and getMonitorsToRun never returns that entry
\* until the monitor is resumed.
C24_PausedKeptAndNotListed ==
    /\ [](\A m \in pausedMonitors :
             /\ cache[m].present => ~cache[m].active
             /\ \A t \in now..MaxWakeTime : m \notin dueIds(cache, t))
    /\ [][\A m \in MonitorIds :
             (db[m].active /\ m \in pausedMonitors') =>
                 cache'[m] = IF cache[m].present
                             THEN [cache[m] EXCEPT !.active = FALSE]
                             ELSE cache[m]]_vars

C24_Witness ==
    \E m \in pausedMonitors :
        /\ cache[m].present
        /\ ~cache[m].active
        /\ cache[m].nextRunAt <= now
        /\ now > 0
        /\ sweeps = <<>>

----------------------------------------------------------------------------
(* The next check job of the queue-backed worker *)

\* C26: in queue mode, each time the check job of a monitor completes and the
\* monitor is still active, a new check job of that monitor is in the queue.
C26_CompletionRequeues ==
    [][\A m \in MonitorIds :
          (useBullMQ /\ jobs[m] = "active" /\ jobs'[m] # "active"
              /\ db'[m].exists /\ db'[m].active) => jobs'[m] = "queued"]_vars

----------------------------------------------------------------------------
(* The bookkeeping of a delivery *)

\* C27: sendToChannel on a successful delivery increments alertsSent of the
\* channel by exactly 1 and sets lastAlertAt to now; on a failed delivery it
\* records lastError and leaves alertsSent and lastAlertAt as they were.
C27_StatsFollowDelivery ==
    [][alertAct'.kind = "send" =>
          \A c \in alertAct'.attempted :
              IF c \in alertAct'.delivered \ alertAct'.unsent
              THEN /\ channels'[c].alertsSent = channels[c].alertsSent + 1
                   /\ channels'[c].lastAlertAt = now'
              ELSE /\ channels'[c].lastError
                   /\ channels'[c].alertsSent = channels[c].alertsSent
                   /\ channels'[c].lastAlertAt = channels[c].lastAlertAt]_vars

----------------------------------------------------------------------------
(* The fan-out of an alert *)

\* C28: sendAlert attempts the delivery on every enabled channel of the team
\* that is subscribed to the event type, whatever happens on the other
\* channels, and reports sent + failed equal to the number of those channels.
C28_EveryChannelAttempted ==
    alertAct.kind = "send" =>
        LET found == subscribed(channels, alertAct.alertType)
        IN /\ alertAct.attempted = found
           /\ alertAct.delivered \subseteq found
           /\ alertAct.sent = Cardinality(alertAct.delivered)
           /\ alertAct.sent + alertAct.failed = Cardinality(found)

\* C28 witness: an alert that went to two channels, the delivery on the first
\* failed and the delivery on the second succeeded
C28_Witness ==
    /\ alertAct.kind = "send"
    /\ alertAct.attempted = ChannelIds
    /\ alertAct.delivered = {NumChannels}
    /\ alertAct.sent = 1
    /\ alertAct.failed = 1

----------------------------------------------------------------------------
(* The life of an incident: the runner and the incident controller *)

\* In-process mode on a store that holds monitor 1, never checked, whose first
\* failure opens an incident.
InitIncident ==
    /\ useBullMQ = FALSE
    /\ started([m \in MonitorIds |->
                   IF m = 1 THEN NewDoc(MIN_INTERVAL_SEC, 1) ELSE NoDoc])
    /\ startedBeside([m \in MonitorIds |-> NoDoc])
    /\ alertsIdle
    /\ sideIdle

\* An in-flight check of the runner settles.  The timer last fired at `now`;
\* the second clock read of a resolution falls before or after the instant
\* at which the next tick is due.
IncidentCheck ==
    /\ ~useBullMQ
    /\ \E si \in 1..Len(sweeps) : \E k \in sweeps[si].pending :
       \E success \in BOOLEAN, t2 \in {now, now + 1} :
          checkCompletes(si, k, success, TRUE, t2)
    /\ UNCHANGED <<apart, useBullMQ, now, jobs>>

\* exports.updateIncident on an incident of any age
IncidentUpdate ==
    /\ \E id \in ManagedIds, status \in IncidentStatuses :
          /\ Len(incidents[id].timeline) < MaxEntries
          /\ updatesIncident(id, status)
    /\ lastAct' = NoAct
    /\ UNCHANGED <<apart, useBullMQ, now, cache, nextIncidentId, sweeps, jobs,
                   createdInRun>>

\* exports.addTimelineEntry on an incident of any age
IncidentEntry ==
    /\ \E id \in ManagedIds, status \in IncidentStatuses \cup {""} :
          /\ Len(incidents[id].timeline) < MaxEntries
          /\ addsTimelineEntry(id, status)
    /\ lastAct' = NoAct
    /\ UNCHANGED <<apart, useBullMQ, now, cache, db, nextIncidentId, sweeps,
                   jobs, createdInRun>>

NextIncident ==
    \/ TickSerial
    \/ IdleTicks
    \/ IncidentCheck
    \/ CreateIncident
    \/ IncidentUpdate
    \/ IncidentEntry

SpecIncident == InitIncident /\ [][NextIncident]_vars

\* C29: an incident has resolvedAt set if and only if its status is resolved,
\* whatever the runner and the create, update and add-timeline-entry
\* operations have done to it.
C29_ResolvedAtIffResolved ==
    \A id \in IncidentIds :
        incidents[id].exists =>
            (incidents[id].resolvedAt # NoTime
                <=> incidents[id].status = "resolved")

\* C30: a resolved incident has resolvedAt at or after startedAt and a stored
\* duration of exactly resolvedAt minus startedAt.
C30_DurationExact ==
    \A id \in IncidentIds :
        (incidents[id].exists /\ incidents[id].status = "resolved") =>
            /\ incidents[id].resolvedAt >= incidents[id].startedAt
            /\ incidents[id].duration =
                   incidents[id].resolvedAt - incidents[id].startedAt

----------------------------------------------------------------------------
(* The in-process runner after a transition it missed *)

\* In-process mode on a store that holds monitor 1, never checked, with a
\* threshold its failures can pass.
InitMissed ==
    /\ useBullMQ = FALSE
    /\ \E alertAfterFailures \in {a \in Thresholds : a < MaxFailures} :
          started([m \in MonitorIds |->
                      IF m = 1 THEN NewDoc(MIN_INTERVAL_SEC, alertAfterFailures)
                      ELSE NoDoc])
    /\ startedBeside([m \in MonitorIds |-> NoDoc])
    /\ alertsIdle
    /\ sideIdle

\* The process dies in checkMonitor after findByIdAndUpdate has written the
\* result of check k of sweep si and before handleStatusChange is called; it
\* is started again and initializeWorker loads the store into an empty cache.
CrashRestart ==
    /\ ~useBullMQ
    /\ \E si \in 1..Len(sweeps) : \E k \in sweeps[si].pending :
       \E success \in BOOLEAN :
          LET m == sweeps[si].mons[k].monitorId
              u == updateAfterCheck(cache[m], success, Unmeasured, now)
              doc1 == [db[m] EXCEPT
                          !.lastStatus = IF success THEN "up" ELSE "down",
                          !.lastResponseMs = Unmeasured,
                          !.consecutiveFailures =
                              IF u.result.isNull THEN 0
                              ELSE u.result.consecutiveFailures]
              written == [db EXCEPT ![m] = IF db[m].exists THEN doc1 ELSE @]
          IN /\ success \/ cache[m].consecutiveFailures < MaxFailures
             /\ db' = written
             /\ cache' = [n \in MonitorIds |->
                             IF written[n].exists /\ written[n].active
                             THEN addMonitor(NoEntry, written[n], now)
                             ELSE NoEntry]
    /\ sweeps' = <<>>
    /\ lastAct' = BootAct
    /\ UNCHANGED <<apart, useBullMQ, now, incidents, nextIncidentId, jobs,
                   createdInRun>>

NextMissed ==
    \/ TickSerial
    \/ IdleTicks
    \/ CompleteCheck
    \/ Restart
    \/ CrashRestart

SpecMissed == InitMissed /\ [][NextMissed]_vars

\* C31: in the in-process runner, a failing check whose result the store
\* takes, with consecutiveFailures past alertAfterFailures on a monitor that
\* has no currentIncidentId (the state machine did not run on the check that
\* reached the threshold), creates the incident and requests the down alert.
C31_MissedTransitionCaughtUp ==
    (/\ ~useBullMQ
     /\ lastAct.kind = "check"
     /\ lastAct.ran
     /\ ~lastAct.success
     /\ lastAct.consecutiveFailures >
            (IF lastAct.alertAfterFailures = 0 THEN 1
             ELSE lastAct.alertAfterFailures)
     /\ lastAct.hadIncidentId = 0) =>
        /\ lastAct.created # 0
        /\ lastAct.downAlert
        /\ incidents[lastAct.created].exists
        /\ incidents[lastAct.created].monitorId = lastAct.monitorId
        /\ incidents[lastAct.created].status = "investigating"
        /\ db[lastAct.monitorId].currentIncidentId = lastAct.created

\* C31 witness: the second failure of a monitor with threshold 1 creates the
\* first incident of the outage
C31_Witness ==
    /\ lastAct.kind = "check"
    /\ lastAct.ran
    /\ ~lastAct.success
    /\ lastAct.alertAfterFailures = 1
    /\ lastAct.consecutiveFailures = 2
    /\ lastAct.hadIncidentId = 0
    /\ lastAct.created = 1
    /\ createdInRun[lastAct.monitorId] = 1

----------------------------------------------------------------------------
(* The queue-backed worker alone: check jobs whose processing throws *)

\* Queue mode, started on a store that holds two monitors, never checked.
InitRetry ==
    /\ useBullMQ = TRUE
    /\ started([m \in MonitorIds |-> NewDoc(MIN_INTERVAL_SEC, 1)])
    /\ startedBeside([m \in MonitorIds |-> NoDoc])
    /\ alertsIdle
    /\ sideIdle

\* what the retry specification leaves alone
retryFrame ==
    UNCHANGED <<queueSide, cacheObs, alertSide, sideObs, endSide, sendSide,
                queue, useBullMQ, now, cache, sweeps>>

\* processMonitorCheck throws for the job of monitor m: the store rejects
\* Monitor.findById, nothing has been written, the catch rethrows.
JobThrows ==
    /\ useBullMQ
    /\ \E m \in MonitorIds :
          /\ jobs[m] = "active"
          /\ jobs' = [jobs EXCEPT ![m] = jobThrows(@, attemptsMade[m])]
          /\ attemptsMade' = [attemptsMade EXCEPT ![m] = @ + 1]
    /\ lastAct' = NoAct
    /\ UNCHANGED <<db, incidents, nextIncidentId, createdInRun, timeouts>>
    /\ retryFrame

\* A job completes.
RetryJobComplete ==
    /\ useBullMQ
    /\ \E m \in MonitorIds, success \in BOOLEAN :
          jobCompletes(m, success, NoSsl)
    /\ UNCHANGED <<attemptsMade, timeouts>>
    /\ retryFrame

\* exports.updateMonitor with a request that leaves interval and threshold as
\* they are: the job of the monitor is removed and a new one added, unless a
\* worker holds it.
RetryUpdate ==
    /\ useBullMQ
    /\ \E m \in MonitorIds :
          /\ updatesMonitor(m, 0, 0)
          /\ attemptsMade' = [attemptsMade EXCEPT
                                 ![m] = IF jobs[m] = "active" THEN @ ELSE 0]
    /\ lastAct' = NoAct
    /\ UNCHANGED <<incidents, nextIncidentId, createdInRun, timeouts>>
    /\ retryFrame

NextRetry == ClockTick \/ JobStart \/ JobThrows \/ RetryJobComplete \/ RetryUpdate

SpecRetry == InitRetry /\ [][NextRetry]_vars

\* C32: in queue mode a check job whose processing throws is attempted at
\* most 3 times, and a monitor whose job has failed all its attempts remains
\* scheduled: a check job for its next interval is in the queue.
C32_RetriedThenRescheduled ==
    \A m \in MonitorIds :
        /\ attemptsMade[m] <= attempts
        /\ (db[m].exists /\ db[m].active /\ attemptsMade[m] = attempts) =>
               jobs[m] = "queued"

----------------------------------------------------------------------------
(* The in-process runner alone: targets that never respond *)

\* the timeout field of a createMonitor request: absent, null, or a number
AbsentField == 0 - 2
NullField == 0 - 1
TimeoutRequests == {AbsentField, NullField, MinTimeout - 1, MinTimeout}

\* createMonitor, `timeout = 30000` in the destructuring of req.body: the
\* default stands in for an absent field only
requestedTimeout(field) == IF field = AbsentField THEN DefaultTimeout ELSE field

\* monitor.save(): the schema's min and max validators; they pass null
timeoutValid(timeout) ==
    timeout = NullField \/ (MinTimeout <= timeout /\ timeout <= MaxTimeout)

\* worker.js checkMonitor hands monitorData.timeout to axios as it is, and
\* axios arms its timer only for a timeout that is truthy
axiosTimesOut(timeout) == timeout # NullField /\ timeout # 0

\* In-process mode on an empty store.
InitSweep ==
    /\ useBullMQ = FALSE
    /\ started([m \in MonitorIds |-> NoDoc])
    /\ startedBeside([m \in MonitorIds |-> NoDoc])
    /\ alertsIdle
    /\ sideIdle

\* what the sweep specification leaves alone
sweepFrame ==
    UNCHANGED <<queueSide, cacheObs, alertSide, sideObs, attemptsMade,
                endSide, sendSide, queue, useBullMQ, now, jobs>>

\* exports.createMonitor with a timeout field the schema accepts
SweepCreate ==
    /\ \E m \in MonitorIds, field \in TimeoutRequests :
          /\ timeoutValid(requestedTimeout(field))
          /\ createsMonitor(m, MIN_INTERVAL_SEC, MaxFailures + 1)
          /\ timeouts' = [timeouts EXCEPT ![m] = requestedTimeout(field)]
    /\ lastAct' = NoAct
    /\ UNCHANGED <<incidents, nextIncidentId, sweeps, createdInRun>>
    /\ sweepFrame

\* The target of an in-flight check answers, or refuses the connection.
SweepRespond ==
    /\ \E si \in 1..Len(sweeps) : \E k \in sweeps[si].pending :
       \E success \in BOOLEAN :
          checkCompletes(si, k, success, TRUE, now)
    /\ UNCHANGED timeouts
    /\ sweepFrame

\* The target of an in-flight check has not answered and the timer of the
\* request fires: axios rejects and the check completes as a failure.
SweepTimeout ==
    /\ \E si \in 1..Len(sweeps) : \E k \in sweeps[si].pending :
          /\ axiosTimesOut(timeouts[sweeps[si].mons[k].monitorId])
          /\ checkCompletes(si, k, FALSE, TRUE, now)
    /\ UNCHANGED timeouts
    /\ sweepFrame

NextSweep ==
    \/ TickSerial
    \/ IdleTicks
    \/ SweepCreate
    \/ SweepRespond
    \/ SweepTimeout

\* No target is bound to answer; a timer that is armed does fire.
SpecSweep == InitSweep /\ [][NextSweep]_vars /\ WF_vars(SweepTimeout)

\* C33: every sweep terminates: each check started in a batch completes with
\* a result or a timeout failure even if its target never responds, so the
\* runner always returns to idle.
C33_SweepTerminates == (sweeps # <<>>) ~> (sweeps = <<>>)

----------------------------------------------------------------------------
(* SIGTERM and SIGINT *)

\* the timer fires, if the process still runs
ShutdownTick == ~exited /\ TickSerial

ShutdownIdleTicks == ~exited /\ IdleTicks

\* a check settles, if the process still runs
ShutdownCheck == ~exited /\ CompleteCheck

\* server.js gracefulShutdown in in-process mode: server.close, and in its
\* callback process.exit(0); only queue mode awaits its workers before that.
\* What the runner has in flight is left as it is.
gracefulShutdown ==
    /\ ~useBullMQ
    /\ ~exited
    /\ exited' = TRUE
    /\ lastAct' = NoAct
    /\ UNCHANGED <<queueSide, cacheObs, alertSide, sideObs, attemptsMade,
                   timeouts, resumed, sendSide, queue, useBullMQ, now, cache,
                   db, incidents,
                   nextIncidentId, sweeps, jobs, createdInRun>>

NextShutdown ==
    \/ ShutdownTick
    \/ ShutdownIdleTicks
    \/ ShutdownCheck
    \/ gracefulShutdown

SpecShutdown == InitLoop /\ [][NextShutdown]_vars

\* C34: on SIGTERM or SIGINT the process does not exit while a sweep of the
\* in-process runner is in flight: every check of that sweep has completed
\* and been recorded before the exit.
C34_ExitAfterSweep == exited => sweeps = <<>>

----------------------------------------------------------------------------
(* A monitor is paused while a sweep works through its batches *)

\* the monitors a sweep of all of SweptIds reaches after its first batch
LaterBatch == {m \in SweptIds : m > CONCURRENCY_LIMIT}

\* A check of the sweep settles: the target answers as expected and the
\* store takes the writes.
SnapshotCheck ==
    /\ \E si \in 1..Len(sweeps) : \E k \in sweeps[si].pending :
          checkCompletes(si, k, TRUE, TRUE, now)
    /\ UNCHANGED <<apart, useBullMQ, now, jobs>>

\* exports.pauseMonitor in in-process mode, for a monitor of a later batch
SnapshotPause ==
    /\ ~useBullMQ
    /\ \E m \in LaterBatch :
          /\ db[m].exists
          /\ db[m].active
          /\ db' = [db EXCEPT ![m].active = FALSE]
          /\ cache' = [cache EXCEPT ![m] = pauseMonitor(@)]
    /\ lastAct' = NoAct
    /\ UNCHANGED <<apart, useBullMQ, now, incidents, nextIncidentId, sweeps,
                   jobs, createdInRun>>

NextSnapshot == TickSerial \/ SnapshotCheck \/ SnapshotPause

SpecSnapshot == InitBatch /\ [][NextSnapshot]_vars

\* C35: once pauseMonitor has returned, the in-process runner starts no new
\* check of that monitor, even when a sweep that already listed the monitor
\* as due is still working through its batches: every batch a step starts
\* holds only monitors whose entry was present and active before the step.
C35_NoCheckAfterPause ==
    [][\A si \in 1..Len(sweeps') :
          (si > Len(sweeps) \/ sweeps'[si].i # sweeps[si].i) =>
              \A k \in sweeps'[si].pending :
                 LET m == sweeps'[si].mons[k].monitorId
                 IN cache[m].present /\ cache[m].active]_vars

----------------------------------------------------------------------------
(* A monitor is paused and resumed while its check is in flight *)

\* the monitors with a check in flight
checked ==
    UNION {{sweeps[si].mons[k].monitorId : k \in sweeps[si].pending} :
              si \in 1..Len(sweeps)}

\* what the resume specification leaves alone
staleFrame ==
    UNCHANGED <<queueSide, cacheObs, alertSide, sideObs, attemptsMade,
                timeouts, exited, sendSide, queue, useBullMQ, now, jobs>>

\* An in-flight check settles; it was started before the last resume of its
\* monitor ("stale") or after it.
StaleCheck ==
    /\ \E si \in 1..Len(sweeps) : \E k \in sweeps[si].pending :
       \E success \in BOOLEAN :
          /\ checkCompletes(si, k, success, TRUE, now)
          /\ resumed' = [resumed EXCEPT
                            ![sweeps[si].mons[k].monitorId] =
                                IF @ = "stale" THEN "fresh" ELSE "no"]
    /\ staleFrame

\* exports.pauseMonitor
StalePause == ~useBullMQ /\ PauseMonitor

\* exports.resumeMonitor in in-process mode
StaleResume ==
    /\ ~useBullMQ
    /\ \E m \in MonitorIds :
          LET monitor == [db[m] EXCEPT !.active = TRUE,
                                       !.lastStatus = "pending",
                                       !.consecutiveFailures = 0]
          IN /\ db[m].exists
             /\ db' = [db EXCEPT ![m] = monitor]
             /\ cache' = [cache EXCEPT ![m] = resumeMonitor(@, monitor, now)]
             /\ resumed' = [resumed EXCEPT
                               ![m] = IF m \in checked THEN "stale"
                                      ELSE "fresh"]
    /\ lastAct' = NoAct
    /\ UNCHANGED <<incidents, nextIncidentId, sweeps, createdInRun>>
    /\ staleFrame

NextStale ==
    \/ TickSerial
    \/ IdleTicks
    \/ StaleCheck
    \/ StalePause
    \/ StaleResume

SpecStale == InitMissed /\ [][NextStale]_vars

\* C36: after resumeMonitor the entry stays pending with consecutiveFailures
\* 0 until a check that started after the resume completes; the result of a
\* check that was in flight when the monitor was paused and resumed is not
\* applied to the fresh entry.
C36_FreshEntryKept ==
    \A m \in MonitorIds :
       resumed[m] # "no" =>
          /\ cache[m].present
          /\ cache[m].lastStatus = "pending"
          /\ cache[m].consecutiveFailures = 0

----------------------------------------------------------------------------
(* The incident a monitor points to *)

\* C37: in every reachable state, a monitor's non-null currentIncidentId
\* refers to an existing incident whose status is not resolved, over
\* automatic creation and resolution and the manual create, update,
\* add-timeline-entry and delete incident operations.
C37_CurrentIncidentOpen ==
    \A m \in MonitorIds :
       (db[m].exists /\ db[m].currentIncidentId # 0) =>
          /\ db[m].currentIncidentId \in IncidentIds
          /\ incidents[db[m].currentIncidentId].exists
          /\ incidents[db[m].currentIncidentId].status # "resolved"

----------------------------------------------------------------------------
(* Recovery alerts *)

\* C38: an up alert is requested for a monitor only if a down alert was
\* requested for it earlier in the same outage, that is since its previous
\* successful check; a failure streak shorter than alertAfterFailures
\* followed by a success requests no alert at all.
C38_UpAlertAfterDownAlert ==
    [][(lastAct'.kind = "check" /\ lastAct'.upAlert) =>
          createdInRun[lastAct'.monitorId] > 0]_vars

----------------------------------------------------------------------------
(* Concurrent calls of sendAlert *)

CallIds == 1..MaxCalls

\* what the concurrent dispatcher leaves alone
sendingFrame ==
    UNCHANGED <<attemptsMade, timeouts, endSide, queue, alertAct, useBullMQ,
                now, cache, db, incidents, nextIncidentId, sweeps, jobs,
                lastAct, createdInRun, queueSide, cacheObs, sideObs>>

\* sendAlert from its call to the await of Promise.allSettled: the channels
\* of the team subscribed to the alert type are loaded, and sendToChannel
\* is called on each loaded document and waits for its sender.
SendBegin ==
    /\ \E call \in CallIds, alertType \in AlertTypes :
          /\ \A s \in sending : s.call # call
          /\ subscribed(channels, alertType) # {}
          /\ sending' = sending \cup
                {[call |-> call, channel |-> c,
                  alertsSent |-> channels[c].alertsSent] :
                     c \in subscribed(channels, alertType)}
    /\ UNCHANGED <<channels, deliveries>>
    /\ sendingFrame

\* sendToChannel after its sender has settled: the statistics are set on
\* the document the call loaded, and save() writes the paths it changed.
\* The sender delivers, or throws.
SendSettle ==
    /\ \E s \in sending, ok \in BOOLEAN :
          /\ ok => deliveries[s.channel] < MaxAlertsSent
          /\ channels' =
                [channels EXCEPT
                    ![s.channel] =
                        sendToChannel([@ EXCEPT !.alertsSent = s.alertsSent],
                                      ok, now)]
          /\ deliveries' = [deliveries EXCEPT
                               ![s.channel] = IF ok THEN @ + 1 ELSE @]
          /\ sending' = sending \ {s}
    /\ sendingFrame

NextSending == SendBegin \/ SendSettle \/ AlertTick

SpecSending == InitAlerts /\ [][NextSending]_vars

\* C39: after any interleaving of concurrent sendAlert calls for the same
\* team, each channel's alertsSent has grown by exactly the number of
\* successful deliveries made on that channel: no increment is lost.
C39_NoLostIncrement ==
    sending = {} =>
        \A c \in ChannelIds : channels[c].alertsSent = deliveries[c]

----------------------------------------------------------------------------
(* The monitor-checks queue as a set of jobs *)

\* the job id addMonitorCheckJob builds: `check-${monitor._id}`
checkJobId(m) == <<"check", m>>

\* the states of a job that is still to run or running
LiveStates == {"waiting", "delayed", "active"}

\* the delays a job is added with: none, or some
Delays == {0, 1}

\* the id the queue would give a job added without one
autoJobId(q) ==
    <<"auto", CHOOSE n \in 1..(Cardinality(q) + 1) :
                  \A j \in q : j.jobId # <<"auto", n>>>>

\* a queue that gives every added job an id of its own
monitorQueueAddUnkeyed(q, jobId, m, delay) ==
    q \cup {[jobId |-> autoJobId(q), monitorId |-> m,
              state |-> IF delay > 0 THEN "delayed" ELSE "waiting"]}

\* monitorQueue.add with the jobId option: a job is added under the id,
\* unless the queue holds a job under that id, in whatever state
monitorQueueAdd(q, jobId, m, delay) ==
    IF \E j \in q : j.jobId = jobId THEN q
    ELSE q \cup {[jobId |-> jobId, monitorId |-> m,
                  state |-> IF delay > 0 THEN "delayed" ELSE "waiting"]}

\* addMonitorCheckJob(monitor, delay)
addCheckJob(q, m, delay) == monitorQueueAdd(q, checkJobId(m), m, delay)

\* removeMonitorJobs(monitorId): getJob under the id and job.remove(), which
\* leaves a job a worker holds
removeCheckJobs(q, m) ==
    {j \in q : j.jobId # checkJobId(m) \/ j.state = "active"}

\* loadMonitorsIntoQueue: every active monitor is added with a random delay
RECURSIVE loadMonitorsIntoQueue(_, _, _, _)
loadMonitorsIntoQueue(q, d, delay, m) ==
    IF m \notin DOMAIN d THEN q
    ELSE loadMonitorsIntoQueue(
             IF d[m].exists /\ d[m].active THEN addCheckJob(q, m, delay[m])
             ELSE q,
             d, delay, m + 1)

\* the job j with its state changed
moved(q, j, state) == (q \ {j}) \cup {[j EXCEPT !.state = state]}

\* Queue mode on an empty store and an empty queue.
InitQueue ==
    /\ useBullMQ = TRUE
    /\ started([m \in MonitorIds |-> NoDoc])
    /\ startedBeside([m \in MonitorIds |-> NoDoc])
    /\ alertsIdle
    /\ sideIdle

\* what the queue specification leaves alone
queueFrame ==
    /\ lastAct' = NoAct
    /\ UNCHANGED <<queueSide, cacheObs, alertSide, sideObs, attemptsMade,
                   timeouts, endSide, sendSide, useBullMQ, now, cache,
                   incidents, nextIncidentId, sweeps, jobs, createdInRun>>

\* exports.createMonitor
QueueCreate ==
    /\ \E m \in MonitorIds :
          /\ ~db[m].exists
          /\ \A n \in 1..(m - 1) : db[n].exists
          /\ db' = [db EXCEPT ![m] = NewDoc(MIN_INTERVAL_SEC, 1)]
          /\ queue' = addCheckJob(queue, m, 0)
    /\ queueFrame

\* exports.updateMonitor: the job is removed, and added again for an active
\* monitor
QueueUpdate ==
    /\ \E m \in MonitorIds :
          /\ db[m].exists
          /\ queue' = IF db[m].active
                      THEN addCheckJob(removeCheckJobs(queue, m), m, 0)
                      ELSE removeCheckJobs(queue, m)
    /\ UNCHANGED db
    /\ queueFrame

\* exports.pauseMonitor
QueuePause ==
    /\ \E m \in MonitorIds :
          /\ db[m].exists
          /\ db' = [db EXCEPT ![m].active = FALSE]
          /\ queue' = removeCheckJobs(queue, m)
    /\ queueFrame

\* exports.resumeMonitor
QueueResume ==
    /\ \E m \in MonitorIds :
          /\ db[m].exists
          /\ db' = [db EXCEPT ![m].active = TRUE,
                              ![m].lastStatus = "pending",
                              ![m].consecutiveFailures = 0]
          /\ queue' = addCheckJob(queue, m, 0)
    /\ queueFrame

\* The process starts again on the queue it left: initializeWorkers loads
\* the active monitors.
QueueLoad ==
    /\ \E delay \in [MonitorIds -> Delays] :
          queue' = loadMonitorsIntoQueue(queue, db, delay, 1)
    /\ UNCHANGED db
    /\ queueFrame

\* The delay of a job is over.
QueuePromote ==
    /\ \E j \in queue :
          /\ j.state = "delayed"
          /\ queue' = moved(queue, j, "waiting")
    /\ UNCHANGED db
    /\ queueFrame

\* The worker takes a waiting job.
QueueStart ==
    /\ \E j \in queue :
          /\ j.state = "waiting"
          /\ queue' = moved(queue, j, "active")
    /\ UNCHANGED db
    /\ queueFrame

\* The processor returns: the job is kept as completed, and the 'completed'
\* handler calls scheduleNextCheck, which adds the next job of a monitor
\* that is active with its interval as the delay.
QueueComplete ==
    /\ \E j \in queue :
          LET done == IF removeOnComplete > 0
                      THEN moved(queue, j, "completed")
                      ELSE queue \ {j}
              m == j.monitorId
          IN /\ j.state = "active"
             /\ queue' = IF db[m].exists /\ db[m].active
                         THEN addCheckJob(done, m, db[m].intervalSec)
                         ELSE done
    /\ UNCHANGED db
    /\ queueFrame

\* The processor throws: the job is delayed for another attempt, or kept as
\* failed after the last one.
QueueFail ==
    /\ \E j \in queue, made \in 0..(attempts - 1) :
          /\ j.state = "active"
          /\ queue' = IF made + 1 < attempts THEN moved(queue, j, "delayed")
                      ELSE IF removeOnFail > 0 THEN moved(queue, j, "failed")
                      ELSE queue \ {j}
    /\ UNCHANGED db
    /\ queueFrame

NextQueue ==
    \/ QueueCreate
    \/ QueueUpdate
    \/ QueuePause
    \/ QueueResume
    \/ QueueLoad
    \/ QueuePromote
    \/ QueueStart
    \/ QueueComplete
    \/ QueueFail

SpecQueue == InitQueue /\ [][NextQueue]_vars

\* the jobs of monitor m that are waiting, delayed or active
liveJobs(m) == {j \in queue : j.monitorId = m /\ j.state \in LiveStates}

\* C40: in queue mode, at any time there is at most one waiting, delayed or
\* active check job per monitor, across monitor create, update, pause,
\* resume, startup loading and rescheduling after completion.
C40_OneLiveJobPerMonitor ==
    \A m \in MonitorIds : Cardinality(liveJobs(m)) <= 1

\* every monitor has its one job still to run or running: one job is being
\* processed for an active monitor, another is delayed
C40_Witness ==
    /\ \E j \in queue : j.state = "active" /\ db[j.monitorId].active
    /\ \E j \in queue : j.state = "delayed"
    /\ \A m \in MonitorIds : Cardinality(liveJobs(m)) = 1
====
